---- MODULE Spec2Model ----
\* Model of the news aggregation pipeline of server/services/langgraph_agents.py:
\* LangGraphNewsAgents.run_parallel_agents, the four-stage sub-agent workflow,
\* and _deduplicate_news_items with its date sanitation; next to it the fetch
\* handlers of controllers/news_controller.py, validate_heor_expertise of
\* services/openai_service.py and the chat history of
\* services/category_chat_service.py.
\*
\* Strings that the code slices, lowercases or concatenates (titles, statuses)
\* are sequences of one-character strings; relevance scores are integers in
\* hundredths (0.4 is 40); datetimes are integers in hours.
EXTENDS Integers, Sequences, FiniteSets, TLC

VARIABLES
  now,            \* datetime.now() read by _validate_and_filter_dates, in hours
  dd,             \* one standalone call of _deduplicate_news_items and its inputs
  prefs,          \* the UserPreferences of the call
  env,            \* what the oracle and the three sources answer
  run,            \* one call of _run_single_agent, stage by stage
  agents,         \* the 12 sub-agent tasks of one run_parallel_agents call
  grouped,        \* domain_results after the grouping loop
  domain_results, \* the map run_parallel_agents returns
  pc,             \* where the run_parallel_agents call is
  http_client,    \* state of news_agents.http_client, the shared httpx.AsyncClient
  test_apis,      \* the handlers of GET /api/news/test-apis
  finished,       \* the sub-agent tasks in the order they finished, where observed
  handler,        \* one request to /api/news/fetch-category or /fetch-personalized
  validation,     \* calls of OpenAIService.validate_heor_expertise, one at a time
  chat_contexts   \* CategoryChatService.chat_contexts[key] and the calls on that key

vars == <<now, dd, prefs, env, run, agents, grouped, domain_results, pc,
          http_client, test_apis, finished, handler, validation, chat_contexts>>

\* Python's None, where a string is optional
None == "None"

IdleHandler ==
  [pc |-> "idle", endpoint |-> "", category |-> "", session_id |-> None,
   authorization |-> <<>>, status |-> 0]

\* no call of validate_heor_expertise yet, no temporary assistant alive
IdleValidation ==
  [pc |-> "idle", live |-> 0, status |-> "", polls |-> 0, response |-> "",
   result |-> "", raised |-> "", calls |-> 0]

\* no context under the key yet, no call in progress
IdleChat == [exists |-> FALSE, chat_history |-> <<>>, calls |-> <<>>]

\* the state of the services next to the news pipeline
services == <<handler, validation, chat_contexts>>

ServicesIdle ==
  /\ handler = IdleHandler
  /\ validation = IdleValidation
  /\ chat_contexts = IdleChat

\* the variables outside the news pipeline and its test endpoint
rest == <<finished, services>>

\* no service call and no observed order next to the pipeline
RestIdle ==
  /\ finished = <<>>
  /\ ServicesIdle

\* ---------------------------------------------------------------- bounds

\* Longest item list drawn for a standalone deduplication call.
MaxItems == 3
\* Most sub-agents of one run_parallel_agents call in which an unexpected
\* exception escapes a stage.
MaxFailures == 1
\* Sub-agent tasks of a call that may finish ahead of the key order, where
\* the order of finishing is observed.
MaxEarly == 2
\* Turns of the polling loop of run_assistant before the run leaves the
\* states queued and in_progress.
MaxPolls == 2
\* Calls of process_chat_message on one context key, overlapping or not.
MaxChatCalls == 3
\* Calls of validate_heor_expertise, one after the other.
MaxValidations == 2
\* Handlers of the test-apis endpoint that may be running at a time.
MaxHandlers == 2

\* ------------------------------------------------------ program constants

\* item.title.lower()[:50]
TitleKeyLen == 50
\* unique_items[:10]
TopN == 10
\* timedelta(days=365)
YearDays == 365

\* --------------------------------------------------------------- strings

UpperChars == <<"A", "B", "C", "D", "E", "F", "G", "H", "I", "J", "K", "L", "M",
                "N", "O", "P", "Q", "R", "S", "T", "U", "V", "W", "X", "Y", "Z">>
LowerChars == <<"a", "b", "c", "d", "e", "f", "g", "h", "i", "j", "k", "l", "m",
                "n", "o", "p", "q", "r", "s", "t", "u", "v", "w", "x", "y", "z">>

\* str.lower() on one character
LowerChar(c) ==
  IF \E i \in 1..Len(UpperChars) : UpperChars[i] = c
  THEN LowerChars[CHOOSE i \in 1..Len(UpperChars) : UpperChars[i] = c]
  ELSE c

\* str.lower()
ToLower(s) == [i \in 1..Len(s) |-> LowerChar(s[i])]

\* s[:n]
Prefix(s, n) == SubSeq(s, 1, IF Len(s) < n THEN Len(s) ELSE n)

\* n copies of character c
Repeat(c, n) == [i \in 1..n |-> c]

\* domain.title()
DomainTitle(domain) ==
  CASE domain = "regulatory" -> <<"R", "e", "g", "u", "l", "a", "t", "o", "r", "y">>
    [] domain = "clinical"   -> <<"C", "l", "i", "n", "i", "c", "a", "l">>
    [] domain = "market"     -> <<"M", "a", "r", "k", "e", "t">>
    [] OTHER                 -> <<"R", "w", "e">>

\* titles used in the inputs
FdaTitle   == <<"F", "D", "A", " ", "A", "p", "p", "r", "o", "v", "e", "s", " ", "N", "e", "w", " ", "D", "r", "u", "g">>
TrialTitle == <<"T", "r", "i", "a", "l">>
\* three titles of 51, 51 and 50 characters; the first two share their
\* first 50 characters
LongA == Repeat("x", TitleKeyLen - 1) \o <<"y", "a">>
LongB == Repeat("x", TitleKeyLen - 1) \o <<"y", "b">>
LongC == Repeat("x", TitleKeyLen - 1) \o <<"z">>

\* ----------------------------------------------------------------- dates

Hours(day, hour) == day * 24 + hour

NoDate == [ok |-> FALSE, aware |-> FALSE, at |-> 0]

\* dateutil's parser.parse(date_str, fuzzy=True) on the date strings of the
\* model: a naive or timezone-aware datetime, or a parse error (ok = FALSE).
\* Day 400 is 2026-11-04.
DateParse(date_str) ==
  CASE date_str = "2026-10-05"           -> [ok |-> TRUE, aware |-> FALSE, at |-> Hours(370, 0)]
    [] date_str = "2025-09-30"           -> [ok |-> TRUE, aware |-> FALSE, at |-> Hours(0, 0)]
    [] date_str = "2025-11-04"           -> [ok |-> TRUE, aware |-> FALSE, at |-> Hours(35, 0)]
    [] date_str = "2026-11-05"           -> [ok |-> TRUE, aware |-> FALSE, at |-> Hours(401, 0)]
    [] date_str = "2026-11-04T00:00:00"  -> [ok |-> TRUE, aware |-> FALSE, at |-> Hours(400, 0)]
    [] date_str = "2026-10-05T09:00:00Z" -> [ok |-> TRUE, aware |-> TRUE, at |-> Hours(370, 9)]
    [] OTHER                             -> NoDate

\* The instants datetime.now() takes in the model: 2026-11-04 00:00 and 10:00.
NowChoices == {Hours(400, 0), Hours(400, 10)}

\* datetime.now().isoformat() written into an item when the source gave no date
NowIso == "2026-11-04T00:00:00"

DateNotFound == "Date not found"

\* One iteration of the loop of _validate_and_filter_dates: the item is kept
\* (with its date possibly replaced), dropped, or the comparison of a naive
\* with a timezone-aware datetime raises TypeError outside the try block.
ValidateOne(item, t) ==
  LET date_str == item.date
      parsed   == IF date_str # "" THEN DateParse(date_str) ELSE NoDate
  IN  IF parsed.ok
      THEN IF parsed.aware
           THEN [kind |-> "raise", item |-> item]
           ELSE IF t - Hours(YearDays, 0) <= parsed.at /\ parsed.at <= t
                THEN [kind |-> "keep", item |-> [item EXCEPT !.date = date_str]]
                ELSE [kind |-> "drop", item |-> item]
      ELSE [kind |-> "keep", item |-> [item EXCEPT !.date = DateNotFound]]

RECURSIVE ValidateFrom(_, _, _, _)
ValidateFrom(items, i, t, filtered) ==
  IF i > Len(items)
  THEN [raised |-> FALSE, items |-> filtered]
  ELSE LET o == ValidateOne(items[i], t)
       IN  IF o.kind = "raise"
           THEN [raised |-> TRUE, items |-> <<>>]
           ELSE ValidateFrom(items, i + 1, t,
                             IF o.kind = "keep" THEN Append(filtered, o.item) ELSE filtered)

\* _validate_and_filter_dates(items) at time t: the filtered list, or raised
ValidateAndFilterDates(items, t) == ValidateFrom(items, 1, t, <<>>)

\* --------------------------------------------------------- deduplication

\* An id is the sequence of its parts between underscores:
\* "nih_NCT1" is <<"nih", "NCT1">>.
\* item.id.startswith(('nih_', 'ctdata_'))
IsRegistryId(id) == Len(id) >= 2 /\ id[1] \in {"nih", "ctdata"}

\* item.id.split('_', 1)[1]
NctIdOf(id) == Tail(id)

\* item.title.lower()[:50]
TitleKey(title) == Prefix(ToLower(title), TitleKeyLen)

DedupEmpty == [unique_items |-> <<>>, seen_titles |-> {}, seen_nct_ids |-> {}]

\* Mutant of DedupStep: the title key is recorded before the registry
\* identifier is looked at, for an item that is then skipped too.
DedupStepTitleOfSkipped(acc, item) ==
  LET title_key == TitleKey(item.title)
      seen      == title_key \in acc.seen_titles
      acc0      == [acc EXCEPT !.seen_titles = @ \cup {title_key}]
  IN  IF IsRegistryId(item.id) /\ NctIdOf(item.id) \in acc.seen_nct_ids
      THEN acc0
      ELSE LET acc1 == IF IsRegistryId(item.id)
                       THEN [acc0 EXCEPT !.seen_nct_ids = @ \cup {NctIdOf(item.id)}]
                       ELSE acc0
           IN  IF ~seen THEN [acc1 EXCEPT !.unique_items = Append(@, item)] ELSE acc1

\* Mutant of DedupStep: the title key is not lowercased.
DedupStepCaseSensitive(acc, item) ==
  IF IsRegistryId(item.id) /\ NctIdOf(item.id) \in acc.seen_nct_ids
  THEN acc
  ELSE LET acc1 == IF IsRegistryId(item.id)
                   THEN [acc EXCEPT !.seen_nct_ids = @ \cup {NctIdOf(item.id)}]
                   ELSE acc
           title_key == Prefix(item.title, TitleKeyLen)
       IN  IF title_key \notin acc1.seen_titles
           THEN [acc1 EXCEPT !.seen_titles = @ \cup {title_key},
                             !.unique_items = Append(@, item)]
           ELSE acc1

\* Mutant of DedupStep: the registry identifier is not compared.
DedupStepTitleOnly(acc, item) ==
  LET title_key == TitleKey(item.title)
  IN  IF title_key \notin acc.seen_titles
      THEN [acc EXCEPT !.seen_titles = @ \cup {title_key},
                       !.unique_items = Append(@, item)]
      ELSE acc

\* Mutant of DedupStep: an item whose title key was seen takes the place of
\* the item kept for that key.
DedupStepKeepLast(acc, item) ==
  IF IsRegistryId(item.id) /\ NctIdOf(item.id) \in acc.seen_nct_ids
  THEN acc
  ELSE LET acc1 == IF IsRegistryId(item.id)
                   THEN [acc EXCEPT !.seen_nct_ids = @ \cup {NctIdOf(item.id)}]
                   ELSE acc
           title_key == TitleKey(item.title)
       IN  IF title_key \notin acc1.seen_titles
           THEN [acc1 EXCEPT !.seen_titles = @ \cup {title_key},
                             !.unique_items = Append(@, item)]
           ELSE [acc1 EXCEPT !.unique_items =
                   [k \in DOMAIN @ |-> IF TitleKey(@[k].title) = title_key THEN item ELSE @[k]]]

\* One iteration of the loop of _deduplicate_news_items: the registry
\* identifier is recorded before the title is looked at.
DedupStep(acc, item) ==
  IF IsRegistryId(item.id) /\ NctIdOf(item.id) \in acc.seen_nct_ids
  THEN acc
  ELSE LET acc1 == IF IsRegistryId(item.id)
                   THEN [acc EXCEPT !.seen_nct_ids = @ \cup {NctIdOf(item.id)}]
                   ELSE acc
           title_key == TitleKey(item.title)
       IN  IF title_key \notin acc1.seen_titles
           THEN [acc1 EXCEPT !.seen_titles = @ \cup {title_key},
                             !.unique_items = Append(@, item)]
           ELSE acc1

RECURSIVE DedupLoop(_, _, _)
DedupLoop(items, i, acc) ==
  IF i > Len(items) THEN acc ELSE DedupLoop(items, i + 1, DedupStep(acc, items[i]))

\* Mutant of InsertByScore: the sort is not stable, items of equal score
\* change places (sorted ascending, then reversed).
RECURSIVE InsertByScoreUnstable(_, _)
InsertByScoreUnstable(sorted, item) ==
  IF sorted = <<>> THEN <<item>>
  ELSE IF Head(sorted).relevance_score > item.relevance_score
       THEN <<Head(sorted)>> \o InsertByScoreUnstable(Tail(sorted), item)
       ELSE <<item>> \o sorted

\* Insert item behind every element whose score is at least its own.
RECURSIVE InsertByScore(_, _)
InsertByScore(sorted, item) ==
  IF sorted = <<>> THEN <<item>>
  ELSE IF Head(sorted).relevance_score >= item.relevance_score
       THEN <<Head(sorted)>> \o InsertByScore(Tail(sorted), item)
       ELSE <<item>> \o sorted

\* list.sort(key=lambda x: x.relevance_score, reverse=True): stable
RECURSIVE SortByScore(_, _, _)
SortByScore(items, i, sorted) ==
  IF i > Len(items) THEN sorted ELSE SortByScore(items, i + 1, InsertByScore(sorted, items[i]))

\* Mutant of DeduplicateNewsItems: the sorted list is not cut.
DeduplicateNewsItemsUncut(items, t) ==
  LET valid == ValidateAndFilterDates(items, t)
  IN  IF valid.raised
      THEN [raised |-> TRUE, items |-> <<>>]
      ELSE [raised |-> FALSE,
            items  |-> SortByScore(DedupLoop(valid.items, 1, DedupEmpty).unique_items, 1, <<>>)]

\* _deduplicate_news_items(items) at time t: the list returned, or raised
DeduplicateNewsItems(items, t) ==
  LET valid == ValidateAndFilterDates(items, t)
  IN  IF valid.raised
      THEN [raised |-> TRUE, items |-> <<>>]
      ELSE [raised |-> FALSE,
            items  |-> Prefix(SortByScore(DedupLoop(valid.items, 1, DedupEmpty).unique_items,
                                          1, <<>>), TopN)]

\* ------------------------------------------------------------ normalisers

Domains == <<"regulatory", "clinical", "market", "rwe">>
Apis    == <<"serp", "nih", "clinical_data">>

\* dict.get(field, default) on a raw record
Get(rec, field, default) == IF field \in DOMAIN rec THEN rec[field] ELSE default

\* hash(item['link']) rendered in the id: distinct links give distinct texts
PyHash(link) == "hash:" \o link

Recruiting      == <<"R", "e", "c", "r", "u", "i", "t", "i", "n", "g">>
ActiveNotRecr   == <<"A", "c", "t", "i", "v", "e", ",", " ", "n", "o", "t", " ", "r", "e", "c", "r", "u", "i", "t", "i", "n", "g">>
Completed       == <<"C", "o", "m", "p", "l", "e", "t", "e", "d">>
EnrollingByInv  == <<"E", "n", "r", "o", "l", "l", "i", "n", "g", " ", "b", "y", " ", "i", "n", "v", "i", "t", "a", "t", "i", "o", "n">>
Withdrawn       == <<"W", "i", "t", "h", "d", "r", "a", "w", "n">>

\* the status allow-list of _search_with_clinical_data_api
AllowedStatuses == {Recruiting, ActiveNotRecr, Completed, EnrollingByInv}

\* NewsItem(...) of _search_with_serp_api, for a raw hit that has a link
SerpItem(domain, rec) ==
  [id              |-> <<domain, "serp", PyHash(rec.link)>>,
   title           |-> Get(rec, "title", <<>>),
   source          |-> Get(rec, "source", ""),
   date            |-> Get(rec, "date", NowIso),
   category        |-> domain,
   relevance_score |-> 70]

\* NewsItem(...) of _search_with_nih_api
NihItem(domain, rec) ==
  [id              |-> <<"nih", Get(rec, "nctId", "")>>,
   title           |-> Get(rec, "title", <<>>) \o <<" ", "(">> \o DomainTitle(domain) \o <<")">>,
   source          |-> "ClinicalTrials.gov NIH API",
   date            |-> Get(rec, "date", ""),
   category        |-> domain,
   relevance_score |-> 90]

\* NewsItem(...) of _search_with_clinical_data_api, for a study whose status
\* is on the allow-list
CtdataItem(domain, rec) ==
  [id              |-> <<"ctdata", Get(rec, "nctId", "")>>,
   title           |-> Get(rec, "title", <<>>) \o <<" ", "(">> \o Get(rec, "status", <<>>)
                         \o <<")", " ", "-", " ">> \o DomainTitle(domain),
   source          |-> "ClinicalTrials.gov Data API",
   date            |-> IF Get(rec, "date", "") # "" THEN rec.date ELSE NowIso,
   category        |-> domain,
   relevance_score |-> 85]

\* The items one source makes of the records of one response: a web hit
\* without a link raises KeyError, which ends the query with the items made
\* so far kept; a study off the allow-list is skipped.
RECURSIVE NormaliseFrom(_, _, _, _, _)
NormaliseFrom(api, domain, recs, i, items) ==
  IF i > Len(recs) THEN items
  ELSE IF api = "serp"
       THEN IF "link" \in DOMAIN recs[i]
            THEN NormaliseFrom(api, domain, recs, i + 1, Append(items, SerpItem(domain, recs[i])))
            ELSE items
       ELSE IF api = "nih"
            THEN NormaliseFrom(api, domain, recs, i + 1, Append(items, NihItem(domain, recs[i])))
            ELSE NormaliseFrom(api, domain, recs, i + 1,
                               IF Get(recs[i], "status", <<>>) \in AllowedStatuses
                               THEN Append(items, CtdataItem(domain, recs[i]))
                               ELSE items)

Normalise(api, domain, recs) == NormaliseFrom(api, domain, recs, 1, <<>>)

\* ------------------------------------------------- sub-agent workflow

\* score threshold of _filter_relevance_generic (0.4)
Threshold == 40
\* score given when the oracle's answer is not a number (0.5)
DefaultScore == 50
\* state.news_items[:20]
ScoreLimit == 20
\* filtered_items[:10]
FilterTopN == 10

\* The replies of the oracle to the query prompt: llm.ainvoke raises, or
\* returns one of these texts as response.content.
GqEmptyArray == "[]"
GqOne        == "[\"q1\"]"
GqFive       == "[\"q1\", \"q2\", \"q3\", \"q4\", \"q5\"]"
GqEight      == "[\"q1\", \"q2\", \"q3\", \"q4\", \"q5\", \"q6\", \"q7\", \"q8\"]"
GqBlank      == "[\"\"]"
GqObject     == "{\"queries\": 5}"
GqProse      == "Here are the queries you asked for"

GqReplies ==
  {[kind |-> "raise", content |-> ""]}
    \cup {[kind |-> "content", content |-> c] :
            c \in {GqEmptyArray, GqOne, GqFive, GqEight, GqBlank, GqObject, GqProse}}

\* json.loads(response.content) on the texts above: the value, or ok = FALSE
\* for JSONDecodeError
JsonLoads(content) ==
  CASE content = GqEmptyArray -> [ok |-> TRUE, is_list |-> TRUE, value |-> <<>>]
    [] content = GqOne        -> [ok |-> TRUE, is_list |-> TRUE, value |-> <<"q1">>]
    [] content = GqFive       -> [ok |-> TRUE, is_list |-> TRUE,
                                  value |-> <<"q1", "q2", "q3", "q4", "q5">>]
    [] content = GqEight      -> [ok |-> TRUE, is_list |-> TRUE,
                                  value |-> <<"q1", "q2", "q3", "q4", "q5", "q6", "q7", "q8">>]
    [] content = GqBlank      -> [ok |-> TRUE, is_list |-> TRUE, value |-> <<"">>]
    [] content = GqObject     -> [ok |-> TRUE, is_list |-> FALSE, value |-> <<>>]
    [] OTHER                  -> [ok |-> FALSE, is_list |-> FALSE, value |-> <<>>]

\* expertise_areas[0] if expertise_areas else "healthcare"
UserExpertise(p) ==
  IF p.expertise_areas # <<>> THEN p.expertise_areas[1] ELSE "healthcare"

\* Mutant of FallbackQueries: built from the first keyword of the profile.
FallbackQueriesFromKeywords(domain, p) ==
  LET k == IF p.keywords # <<>> THEN p.keywords[1] ELSE "healthcare"
  IN  << domain \o " " \o k, domain \o " updates " \o k,
         domain \o " news " \o k, domain \o " research " \o k >>

\* the fallback list of generate_queries
FallbackQueries(domain, p) ==
  << domain \o " " \o UserExpertise(p),
     domain \o " updates " \o UserExpertise(p),
     domain \o " news " \o UserExpertise(p),
     domain \o " research " \o UserExpertise(p) >>

\* generate_queries for one oracle reply: the stage raises when the oracle
\* call raises (it is outside the try), else it sets search_queries
GenerateQueries(domain, p, reply) ==
  IF reply.kind = "raise"
  THEN [raised |-> TRUE, search_queries |-> <<>>]
  ELSE LET queries == JsonLoads(reply.content)
       IN  IF queries.ok
           THEN [raised |-> FALSE,
                 search_queries |-> IF queries.is_list THEN queries.value
                                    ELSE <<reply.content>>]
           ELSE [raised |-> FALSE, search_queries |-> FallbackQueries(domain, p)]

\* the reply a scripted source or oracle gives to its j-th call
ScriptAt(script, j) == script[((j - 1) % Len(script)) + 1]

\* Mutant of SearchOneQuery: the status code is not looked at.
SearchOneQueryAnyStatus(api, domain, reply) ==
  IF reply.kind \in {"ok", "non200"} THEN Normalise(api, domain, reply.records) ELSE <<>>

\* The items one query adds in a search stage: an HTTP error or timeout
\* (caught), a non-200 status and a 200 with no records add none.
SearchOneQuery(api, domain, reply) ==
  IF reply.kind = "ok" THEN Normalise(api, domain, reply.records) ELSE <<>>

RECURSIVE SearchFrom(_, _, _, _, _, _)
SearchFrom(api, domain, queries, script, j, items) ==
  IF j > Len(queries) THEN items
  ELSE SearchFrom(api, domain, queries, script, j + 1,
                  items \o SearchOneQuery(api, domain, ScriptAt(script, j)))

\* search_api: state.news_items after the query loop
SearchApi(api, domain, queries, script) == SearchFrom(api, domain, queries, script, 1, <<>>)

\* float(response.content.strip()) on the oracle's answers to the scoring
\* prompt, in hundredths; ok = FALSE for ValueError
FloatParse(content) ==
  CASE content = "0.85" -> [ok |-> TRUE, nan |-> FALSE, value |-> 85]
    [] content = "0.4"  -> [ok |-> TRUE, nan |-> FALSE, value |-> 40]
    [] content = "0.2"  -> [ok |-> TRUE, nan |-> FALSE, value |-> 20]
    [] content = "1.7"  -> [ok |-> TRUE, nan |-> FALSE, value |-> 170]
    [] content = "-0.3" -> [ok |-> TRUE, nan |-> FALSE, value |-> -30]
    [] content = "nan"  -> [ok |-> TRUE, nan |-> TRUE, value |-> 0]
    [] OTHER            -> [ok |-> FALSE, nan |-> FALSE, value |-> 0]

\* Mutant of Clamp: the score is stored as the oracle gave it.
ClampMissing(score) == IF score.nan THEN 100 ELSE score.value

\* max(0.0, min(1.0, score)); min(1.0, nan) is 1.0
Clamp(score) ==
  IF score.nan THEN 100
  ELSE IF score.value > 100 THEN 100
       ELSE IF score.value < 0 THEN 0 ELSE score.value

\* Mutant of ScoreOne: an oracle call that raises ends the loop with nothing
\* collected.
ScoreOneAbortOnRaise(filtered_items, item, reply) ==
  IF reply.kind = "raise" THEN <<>>
  ELSE LET score   == FloatParse(reply.content)
           scored  == [item EXCEPT !.relevance_score =
                         IF score.ok THEN Clamp(score) ELSE DefaultScore]
       IN  IF scored.relevance_score >= Threshold
           THEN Append(filtered_items, scored)
           ELSE filtered_items

\* Mutant of ScoreOne: the scored item is collected whatever its score.
ScoreOneNoThreshold(filtered_items, item, reply) ==
  IF reply.kind = "raise" THEN filtered_items
  ELSE LET score   == FloatParse(reply.content)
           scored  == [item EXCEPT !.relevance_score =
                         IF score.ok THEN Clamp(score) ELSE DefaultScore]
       IN  Append(filtered_items, scored)

\* One iteration of the scoring loop: an oracle call that raises skips the
\* item; otherwise the item is scored and kept when the score reaches the
\* threshold.
ScoreOne(filtered_items, item, reply) ==
  IF reply.kind = "raise" THEN filtered_items
  ELSE LET score   == FloatParse(reply.content)
           scored  == [item EXCEPT !.relevance_score =
                         IF score.ok THEN Clamp(score) ELSE DefaultScore]
       IN  IF scored.relevance_score >= Threshold
           THEN Append(filtered_items, scored)
           ELSE filtered_items

RECURSIVE ScoreFrom(_, _, _, _)
ScoreFrom(items, script, i, filtered_items) ==
  IF i > Len(items) THEN filtered_items
  ELSE ScoreFrom(items, script, i + 1, ScoreOne(filtered_items, items[i], ScriptAt(script, i)))

\* Mutant of ScoringSlice: every item is submitted to the oracle.
ScoringSliceAll(news_items) == news_items

\* state.news_items[:20], the items the scoring loop walks
ScoringSlice(news_items) == Prefix(news_items, ScoreLimit)

\* the end of _filter_relevance_generic: sort and cut
SortAndCut(filtered_items) == Prefix(SortByScore(filtered_items, 1, <<>>), FilterTopN)

\* _filter_relevance_generic: state.news_items after the stage
FilterRelevanceGeneric(news_items, script) ==
  IF news_items = <<>> THEN news_items
  ELSE SortAndCut(ScoreFrom(ScoringSlice(news_items), script, 1, <<>>))

\* AgentState(user_preferences=..., category=category)
InitialState(domain) ==
  [category |-> domain, news_items |-> <<>>, search_queries |-> <<>>,
   processing_status |-> "pending", error_message |-> "None"]

\* Mutant of ErrorResult: the workflow ran on initial_state itself, so the
\* state returned after an exception holds what the stages had written.
ErrorResultInPlace(initial_state, partial) ==
  [partial EXCEPT !.processing_status = "error", !.error_message = "exception"]

\* The except branch of _run_single_agent: the workflow ran on a copy
\* (initial_state.dict()), so the untouched initial state is returned.
ErrorResult(initial_state, partial) ==
  [initial_state EXCEPT !.processing_status = "error", !.error_message = "exception"]

\* _finalize_results
FinalizeResults(state) == [state EXCEPT !.processing_status = "completed"]

\* ------------------------------------------------ the environment

\* raw records of the sources
HitFda    == [title |-> FdaTitle, link |-> "https://news.example/a", date |-> "2026-10-05",
              source |-> "unknown-blog"]
HitNoDate == [title |-> TrialTitle, link |-> "https://news.example/b", source |-> "outlet"]
HitAware  == [title |-> LongA, link |-> "https://news.example/c",
              date |-> "2026-10-05T09:00:00Z", source |-> "outlet"]
HitNoLink == [title |-> LongB, date |-> "2026-10-05", source |-> "outlet"]
HitOld    == [title |-> LongC, link |-> "https://news.example/d", date |-> "2025-09-30",
              source |-> "outlet"]
Study1    == [nctId |-> "NCT1", title |-> FdaTitle, date |-> "2026-10-05", status |-> Recruiting]
Study2    == [nctId |-> "NCT2", title |-> TrialTitle, date |-> "", status |-> Completed]
Study3    == [nctId |-> "NCT3", title |-> LongA, date |-> "TBD", status |-> Withdrawn]

\* TopN + 1 studies with pairwise different identifiers and titles
ManyStudies ==
  [i \in 1..(TopN + 1) |->
     [nctId |-> "NCT" \o ToString(100 + i), title |-> Repeat("s", i),
      date |-> "2026-10-05", status |-> Recruiting]]

\* what one HTTP call ends in
Ok(records) == [kind |-> "ok", records |-> records]
Non200      == [kind |-> "non200", records |-> <<Study2>>]
HttpError   == [kind |-> "error", records |-> <<>>]

\* For each source, the replies to the successive queries of one stage.
HttpHealthy ==
  [api \in {"serp", "nih", "clinical_data"} |->
     IF api = "serp" THEN <<Ok(<<HitFda, HitNoDate>>)>>
     ELSE IF api = "nih" THEN <<Ok(<<Study1, Study2>>)>>
     ELSE <<Ok(<<Study1, Study3>>)>>]
HttpFlaky ==
  [api \in {"serp", "nih", "clinical_data"} |->
     IF api = "serp" THEN <<HttpError, Ok(<<HitFda>>)>>
     ELSE IF api = "nih" THEN <<Non200, Ok(<<Study1>>)>>
     ELSE <<Ok(<<Study2>>), HttpError>>]
HttpAware ==
  [api \in {"serp", "nih", "clinical_data"} |->
     IF api = "serp" THEN <<Ok(<<HitFda, HitAware>>)>>
     ELSE IF api = "nih" THEN <<Ok(<<Study1>>)>>
     ELSE <<Ok(<<>>)>>]
HttpBroken ==
  [api \in {"serp", "nih", "clinical_data"} |->
     IF api = "serp" THEN <<Ok(<<HitOld, HitNoLink, HitFda>>)>>
     ELSE IF api = "nih" THEN <<Ok(<<Study1, Study2, Study3>>)>>
     ELSE <<Non200>>]

HttpMany ==
  [api \in {"serp", "nih", "clinical_data"} |->
     IF api = "serp" THEN <<Ok(<<HitOld, HitFda, HitNoDate>>)>> ELSE <<Ok(ManyStudies)>>]

\* the replies of the oracle to the successive scoring prompts of one stage
Answer(content) == [kind |-> "content", content |-> content]
OracleRaise     == [kind |-> "raise", content |-> ""]
ScoreScripts ==
  { <<Answer("0.85")>>,
    <<Answer("1.7"), Answer("-0.3"), Answer("0.4")>>,
    <<Answer("about 0.9"), OracleRaise, Answer("0.2")>>,
    <<Answer("nan"), Answer("0.2")>> }

DefaultPrefs ==
  [expertise_areas |-> <<"health economics and market access">>,
   keywords |-> <<"healthcare", "medical">>, regions |-> <<"US">>]
PrefsChoices ==
  { DefaultPrefs,
    [expertise_areas |-> <<"pediatric oncology">>, keywords |-> <<"regulatory">>,
     regions |-> <<"US">>],
    [expertise_areas |-> <<"pediatric oncology", "rare disease">>,
     keywords |-> <<"medical">>, regions |-> <<"EU", "UK">>],
    [expertise_areas |-> <<>>, keywords |-> <<>>, regions |-> <<>>] }

\* the environments of a single sub-agent run
Worlds ==
  { [gq |-> g, http |-> h, score |-> sc] :
      g \in GqReplies, h \in {HttpHealthy, HttpFlaky, HttpAware, HttpBroken},
      sc \in ScoreScripts }

HealthyWorld == [gq |-> Answer(GqOne), http |-> HttpHealthy, score |-> <<Answer("0.85")>>]

\* the environments of a run_parallel_agents call
AggWorlds ==
  { [gq |-> Answer(GqOne), http |-> HttpAware, score |-> <<Answer("0.85")>>],
    [gq |-> OracleRaise, http |-> HttpHealthy, score |-> <<Answer("0.85")>>],
    [gq |-> Answer(GqOne), http |-> HttpMany,
     score |-> <<Answer("1.7"), Answer("0.4"), Answer("0.4"), Answer("0.2")>>] }

\* ------------------------------------------------ the shared HTTP client

\* httpx.AsyncClient(timeout=30.0): a client is unopened until its first
\* request or its first "async with", then opened, and closed after aclose()
\* or after leaving an "async with" block.

\* AsyncClient.send, reached by http_client.get: a closed client raises
\* RuntimeError, any other client is opened and sends the request
ClientSend(state) ==
  IF state = "closed" THEN [raised |-> TRUE, state |-> state]
  ELSE [raised |-> FALSE, state |-> "opened"]

\* Mutant of AsyncWithEnter: a client may be entered whatever its state.
AsyncWithEnterUnchecked(state) == [raised |-> FALSE, state |-> "opened"]

\* AsyncClient.__aenter__, reached by "async with news_agents.http_client":
\* only an unopened client can be entered, any other raises RuntimeError
AsyncWithEnter(state) ==
  IF state # "unopened" THEN [raised |-> TRUE, state |-> state]
  ELSE [raised |-> FALSE, state |-> "opened"]

\* AsyncClient.__aexit__: the client is closed
AsyncWithExit(state) == "closed"

IdleTestApis ==
  [h \in 1..MaxHandlers |->
     [pc |-> "idle", call |-> "none", serp_status |-> "none", nih_status |-> "none"]]

\* ------------------------------------------------ run_parallel_agents

DomainSet == {Domains[i] : i \in 1..Len(Domains)}

\* self.sub_agents in insertion order; a key is <<domain, api>> and
\* agent_key.split('_')[0] is its first part
SubAgentKeys ==
  [n \in 1..(Len(Domains) * Len(Apis)) |->
     <<Domains[((n - 1) \div Len(Apis)) + 1], Apis[((n - 1) % Len(Apis)) + 1]>>]

\* domain_results = {"regulatory": [], "clinical": [], "market": [], "rwe": []}
EmptyResults == [d \in DomainSet |-> <<>>]

NoOut == [raised |-> FALSE, items |-> <<>>]

IdleDedup ==
  [pc |-> "idle", origin |-> "list", pair |-> <<>>, input |-> <<>>,
   out |-> NoOut, out2 |-> NoOut]

IdleAgents ==
  [n \in DOMAIN SubAgentKeys |-> [pc |-> "idle", result |-> InitialState(SubAgentKeys[n][1])]]

\* _run_single_agent as a whole: the four stages in order on a copy of the
\* initial state; fail_at names the stage an unexpected exception escapes
\* from, or "none".
RunSingleAgentResult(domain, api, p, e, fail_at) ==
  LET s0 == InitialState(domain)
      g  == GenerateQueries(domain, p, e.gq)
      s1 == [s0 EXCEPT !.search_queries = g.search_queries]
      s2 == [s1 EXCEPT !.news_items = SearchApi(api, domain, s1.search_queries, e.http[api])]
      s3 == [s2 EXCEPT !.news_items = FilterRelevanceGeneric(s2.news_items, e.score)]
  IN  IF g.raised \/ fail_at = "generate_queries" THEN ErrorResult(s0, s0)
      ELSE IF fail_at = "search_api" THEN ErrorResult(s0, s1)
      ELSE IF fail_at = "filter_relevance" THEN ErrorResult(s0, s2)
      ELSE IF fail_at = "finalize" THEN ErrorResult(s0, s3)
      ELSE FinalizeResults(s3)

\* Whether a run of _run_single_agent issues an HTTP request: its search
\* stage is reached with at least one query; a run that fails in the search
\* stage may fail before or after its first request.
SendsRequest(domain, p, e, fail_at) ==
  LET g == GenerateQueries(domain, p, e.gq)
  IN  IF g.raised \/ fail_at = "generate_queries" \/ g.search_queries = <<>> THEN {FALSE}
      ELSE IF fail_at = "search_api" THEN {TRUE, FALSE}
      ELSE {TRUE}

\* isinstance(result, Exception): _run_single_agent returns a state on
\* every path, so gather never hands back an exception
IsException(result) == "exception" \in DOMAIN result

\* the grouping loop over zip(self.sub_agents.keys(), results)
RECURSIVE GroupFrom(_, _, _)
GroupFrom(results, n, acc) ==
  IF n > Len(results) THEN acc
  ELSE IF IsException(results[n]) THEN GroupFrom(results, n + 1, acc)
       ELSE GroupFrom(results, n + 1,
              [acc EXCEPT ![SubAgentKeys[n][1]] = @ \o results[n].news_items])

\* ------------------------------------------- one sub-agent run, by stage

Stages == {"generate_queries", "search_api", "filter_relevance", "finalize"}

IdleRun ==
  [pc |-> "idle", domain |-> "regulatory", api |-> "serp",
   state |-> InitialState("regulatory"), qi |-> 1, collected |-> <<>>,
   fi |-> 1, filtered_items |-> <<>>, raised_in |-> "none",
   in_flight |-> "none", tests_at_issue |-> {}, oracle_calls |-> <<>>]

InitAgentRun ==
  /\ now = Hours(400, 10)
  /\ dd = IdleDedup
  /\ prefs \in PrefsChoices
  /\ env \in Worlds
  /\ \E d \in {Domains[i] : i \in 1..Len(Domains)}, a \in {Apis[i] : i \in 1..Len(Apis)} :
       run = [IdleRun EXCEPT !.pc = "generate_queries", !.domain = d, !.api = a,
                             !.state = InitialState(d)]
  /\ agents = IdleAgents
  /\ grouped = EmptyResults
  /\ domain_results = EmptyResults
  /\ pc = "idle"
  /\ http_client = "unopened"
  /\ test_apis = IdleTestApis
  /\ RestIdle

\* Mutant of NextStage: the search stage leads to finalize.
NextStageSkipFilter(stage) ==
  CASE stage = "generate_queries" -> "search_api"
    [] stage = "search_api"       -> "finalize"
    [] stage = "filter_relevance" -> "finalize"
    [] OTHER                      -> "returned"

\* the edges of the workflow: generate_queries, search_api,
\* filter_relevance, finalize, END
NextStage(stage) ==
  CASE stage = "generate_queries" -> "search_api"
    [] stage = "search_api"       -> "filter_relevance"
    [] stage = "filter_relevance" -> "finalize"
    [] OTHER                      -> "returned"

\* the except branch of _run_single_agent
Caught(stage) ==
  [run EXCEPT !.pc = "returned", !.raised_in = stage,
              !.state = ErrorResult(InitialState(run.domain), run.state)]

\* generate_queries: the oracle answers the query prompt, or raises
GenerateQueriesStep ==
  /\ run.pc = "generate_queries"
  /\ LET g == GenerateQueries(run.domain, prefs, env.gq)
     IN  run' = IF g.raised
                THEN [Caught("generate_queries") EXCEPT
                        !.oracle_calls = Append(@, [prompt |-> "queries", item |-> 0])]
                ELSE [run EXCEPT !.pc = NextStage(run.pc), !.qi = 1, !.collected = <<>>,
                                 !.state.search_queries = g.search_queries,
                                 !.oracle_calls = Append(@, [prompt |-> "queries", item |-> 0])]
  /\ UNCHANGED <<now, dd, prefs, env, agents, grouped, domain_results, pc,
                 http_client, test_apis, rest>>

\* The query loop of the search stage reaches "await self.http_client.get"
\* for the next query: the request goes out, or the client refuses it. No
\* other request of this stage is in flight.
SearchIssue ==
  /\ run.pc = "search_api"
  /\ run.qi <= Len(run.state.search_queries)
  /\ run.in_flight = "none"
  /\ LET sent == ClientSend(http_client)
     IN  /\ http_client' = sent.state
         /\ run' = [run EXCEPT !.in_flight = IF sent.raised THEN "refused" ELSE "sent",
                               !.tests_at_issue = {test_apis[h].pc : h \in DOMAIN test_apis}]
  /\ UNCHANGED <<now, dd, prefs, env, agents, grouped, domain_results, pc, test_apis, rest>>

\* The awaited call of the current query ends and the rest of the loop body
\* runs: a refused request is an exception like an HTTP error.
SearchQueryStep ==
  /\ run.pc = "search_api"
  /\ run.in_flight # "none"
  /\ LET reply == IF run.in_flight = "refused" THEN HttpError
                  ELSE ScriptAt(env.http[run.api], run.qi)
     IN  run' = [run EXCEPT !.qi = @ + 1, !.in_flight = "none",
                           !.collected = @ \o SearchOneQuery(run.api, run.domain, reply)]
  /\ UNCHANGED <<now, dd, prefs, env, agents, grouped, domain_results, pc,
                 http_client, test_apis, rest>>

\* the search stage returns: state.news_items = news_items
SearchReturns ==
  /\ run.pc = "search_api"
  /\ run.qi > Len(run.state.search_queries)
  /\ run' = [run EXCEPT !.pc = NextStage(run.pc), !.fi = 1, !.filtered_items = <<>>,
                        !.state.news_items = run.collected]
  /\ UNCHANGED <<now, dd, prefs, env, agents, grouped, domain_results, pc,
                 http_client, test_apis, rest>>

\* one iteration of the scoring loop; the item is rescored in place
ScoreItemStep ==
  /\ run.pc = "filter_relevance"
  /\ run.state.news_items # <<>>
  /\ run.fi <= Len(ScoringSlice(run.state.news_items))
  /\ LET reply == ScriptAt(env.score, run.fi)
         score == FloatParse(reply.content)
     IN  run' = [run EXCEPT
                   !.fi = @ + 1,
                   !.oracle_calls = Append(@, [prompt |-> "score", item |-> run.fi]),
                   !.filtered_items = ScoreOne(@, run.state.news_items[run.fi], reply),
                   !.state.news_items[run.fi].relevance_score =
                      IF reply.kind = "raise" THEN @
                      ELSE IF score.ok THEN Clamp(score) ELSE DefaultScore]
  /\ UNCHANGED <<now, dd, prefs, env, agents, grouped, domain_results, pc,
                 http_client, test_apis, rest>>

\* the relevance filter returns: at once for an empty list, else after the
\* loop with the sorted top of filtered_items
FilterReturns ==
  /\ run.pc = "filter_relevance"
  /\ \/ run.state.news_items = <<>>
     \/ run.fi > Len(ScoringSlice(run.state.news_items))
  /\ run' = [run EXCEPT !.pc = NextStage(run.pc),
                        !.state.news_items =
                           IF @ = <<>> THEN @ ELSE SortAndCut(run.filtered_items)]
  /\ UNCHANGED <<now, dd, prefs, env, agents, grouped, domain_results, pc,
                 http_client, test_apis, rest>>

\* _finalize_results, then _run_single_agent returns AgentState(**result)
FinalizeStep ==
  /\ run.pc = "finalize"
  /\ run' = [run EXCEPT !.pc = NextStage(run.pc), !.state = FinalizeResults(run.state)]
  /\ UNCHANGED <<now, dd, prefs, env, agents, grouped, domain_results, pc,
                 http_client, test_apis, rest>>

\* an exception escapes the running stage and _run_single_agent catches it
StageRaises ==
  /\ run.pc \in Stages
  /\ run' = Caught(run.pc)
  /\ UNCHANGED <<now, dd, prefs, env, agents, grouped, domain_results, pc,
                 http_client, test_apis, rest>>

NextAgentRun ==
  \/ GenerateQueriesStep
  \/ SearchIssue
  \/ SearchQueryStep
  \/ SearchReturns
  \/ ScoreItemStep
  \/ FilterReturns
  \/ FinalizeStep
  \/ StageRaises

\* ------------------------------------- one run_parallel_agents call

\* the profiles of a run_parallel_agents call
AggPrefs == {DefaultPrefs}

\* What _run_single_agent returns for every profile, environment, sub-agent
\* and failing stage of a call, tabulated once.
SettledResults ==
  [p \in AggPrefs |-> [e \in AggWorlds \cup {HealthyWorld} |-> [n \in DOMAIN SubAgentKeys |->
     [fail_at \in Stages \cup {"none"} |->
        RunSingleAgentResult(SubAgentKeys[n][1], SubAgentKeys[n][2], p, e, fail_at)]]]]

ErrorCount ==
  Cardinality({n \in DOMAIN agents :
                 agents[n].pc = "settled" /\ agents[n].result.processing_status = "error"})

InitAggregate ==
  /\ now = Hours(400, 10)
  /\ dd = IdleDedup
  /\ prefs \in AggPrefs
  /\ env \in AggWorlds
  /\ run = IdleRun
  /\ agents = [n \in DOMAIN SubAgentKeys |->
                 [pc |-> "pending", result |-> InitialState(SubAgentKeys[n][1])]]
  /\ grouped = EmptyResults
  /\ domain_results = EmptyResults
  /\ pc = "gather"
  /\ http_client = "unopened"
  /\ test_apis = IdleTestApis
  /\ RestIdle

\* The task of sub-agent n settles: its workflow completed, or an exception
\* escaped the stage fail_at and was caught by _run_single_agent.
Settle(n, fail_at) ==
  /\ pc = "gather"
  /\ agents[n].pc = "pending"
  /\ agents' = [agents EXCEPT ![n] =
                  [pc |-> "settled",
                   result |-> SettledResults[prefs][env][n][fail_at]]]
  /\ \E sent \in SendsRequest(SubAgentKeys[n][1], prefs, env, fail_at) :
       http_client' = IF sent THEN ClientSend(http_client).state ELSE http_client

\* a task settles, in any order, with or without a failure
RunSingleAgent(n) ==
  /\ \E fail_at \in Stages \cup {"none"} :
       /\ fail_at # "none" => ErrorCount < MaxFailures
       /\ Settle(n, fail_at)
  /\ UNCHANGED <<now, dd, prefs, env, run, grouped, domain_results, pc, test_apis, rest>>

\* Mutant of AllSettled: the tasks are started and not awaited.
GatherNotAwaited == TRUE

\* Mutant of AllSettled: gather returns with the first settled task.
FirstSettled == \E n \in DOMAIN agents : agents[n].pc = "settled"

\* await asyncio.gather(*tasks, return_exceptions=True): every task is done
AllSettled == \A n \in DOMAIN agents : agents[n].pc = "settled"

\* Mutant of GatherResults: the results in the order the tasks finished.
GatherResultsAsCompleted(order) ==
  IF Len(order) = Len(agents)
  THEN [k \in DOMAIN agents |-> agents[order[k]].result]
  ELSE [n \in DOMAIN agents |-> agents[n].result]

\* results of asyncio.gather(*tasks): the result of the n-th awaitable at
\* position n, whatever order the tasks finished in
GatherResults(order) == [n \in DOMAIN agents |-> agents[n].result]

\* gather returns once every task has settled; run_parallel_agents groups
\* the results by domain, deduplicates each domain and returns the map, or
\* an exception of _deduplicate_news_items escapes
GatherReturns ==
  /\ pc = "gather"
  /\ AllSettled
  /\ LET results == GatherResults(finished)
         g       == GroupFrom(results, 1, EmptyResults)
         d       == [domain \in DomainSet |-> DeduplicateNewsItems(g[domain], now)]
     IN  /\ grouped' = g
         /\ IF \E domain \in DomainSet : d[domain].raised
            THEN pc' = "raised" /\ UNCHANGED domain_results
            ELSE /\ pc' = "returned"
                 /\ domain_results' = [domain \in DomainSet |-> d[domain].items]
  /\ UNCHANGED <<now, dd, prefs, env, run, agents, http_client, test_apis, rest>>

NextAggregate ==
  \/ \E n \in DOMAIN SubAgentKeys : RunSingleAgent(n)
  \/ GatherReturns

Init == InitAgentRun \/ InitAggregate

Next == NextAgentRun \/ NextAggregate

Spec == Init /\ [][Next]_vars

\* ------------------------- GET /api/news/test-apis next to a sub-agent run

\* what the sources answer to the probe request of a handler
ProbeReplies == {Ok(<<HitFda>>), Ok(<<>>), Non200, HttpError}

\* the handler is called (again)
TestApisCalled(h) ==
  /\ test_apis[h].pc \in {"idle", "done"}
  /\ test_apis' = [test_apis EXCEPT ![h] =
                     [pc |-> "start", call |-> "none", serp_status |-> "none",
                      nih_status |-> "none"]]
  /\ UNCHANGED <<now, dd, prefs, env, run, agents, grouped, domain_results, pc, http_client, rest>>

\* news_agents._search_with_serp(...) reaches "await self.http_client.get"
TestApisSerpIssue(h) ==
  /\ test_apis[h].pc = "start"
  /\ LET sent == ClientSend(http_client)
     IN  /\ http_client' = sent.state
         /\ test_apis' = [test_apis EXCEPT ![h].pc = "serp_wait",
                                           ![h].call = IF sent.raised THEN "refused" ELSE "sent"]
  /\ UNCHANGED <<now, dd, prefs, env, run, agents, grouped, domain_results, pc, rest>>

\* _search_with_serp returns the news results, or [] for a non-200 status
\* and for any exception; serp_status = "connected" if serp_test else "error"
TestApisSerpReturns(h) ==
  /\ test_apis[h].pc = "serp_wait"
  /\ \E answer \in ProbeReplies :
       LET reply     == IF test_apis[h].call = "refused" THEN HttpError ELSE answer
           serp_test == IF reply.kind = "ok" THEN reply.records ELSE <<>>
       IN  test_apis' = [test_apis EXCEPT
                           ![h].pc = "nih",
                           ![h].serp_status = IF serp_test # <<>> THEN "connected" ELSE "error"]
  /\ UNCHANGED <<now, dd, prefs, env, run, agents, grouped, domain_results, pc, http_client, rest>>

\* "async with news_agents.http_client as client" inside try/except: when
\* entering raises, nih_status is "error" and the client is left as it is;
\* otherwise the probe request is made, the block is left and the client is
\* closed. A handler reaches this statement after its own request of
\* _search_with_serp, so the block is shown as one step.
TestApisNih(h) ==
  /\ test_apis[h].pc = "nih"
  /\ LET entered == AsyncWithEnter(http_client)
     IN  IF entered.raised
         THEN /\ test_apis' = [test_apis EXCEPT ![h].pc = "done", ![h].nih_status = "error"]
              /\ UNCHANGED http_client
         ELSE /\ \E answer \in ProbeReplies :
                   test_apis' = [test_apis EXCEPT
                                   ![h].pc = "done",
                                   ![h].nih_status =
                                      IF answer.kind = "ok" THEN "connected" ELSE "error"]
              /\ http_client' = AsyncWithExit(entered.state)
  /\ UNCHANGED <<now, dd, prefs, env, run, agents, grouped, domain_results, pc, rest>>

NextTestApis ==
  \E h \in 1..MaxHandlers :
    \/ TestApisCalled(h)
    \/ TestApisSerpIssue(h)
    \/ TestApisSerpReturns(h)
    \/ TestApisNih(h)

\* the environments of a sub-agent run next to the test-apis handlers
ClientWorlds ==
  { HealthyWorld,
    [gq |-> Answer(GqFive), http |-> HttpFlaky, score |-> <<Answer("0.85")>>] }

InitClient ==
  /\ now = Hours(400, 10)
  /\ dd = IdleDedup
  /\ prefs = DefaultPrefs
  /\ env \in ClientWorlds
  /\ \E a \in {Apis[i] : i \in 1..Len(Apis)} :
       run = [IdleRun EXCEPT !.pc = "generate_queries", !.api = a]
  /\ agents = IdleAgents
  /\ grouped = EmptyResults
  /\ domain_results = EmptyResults
  /\ pc = "idle"
  /\ http_client = "unopened"
  /\ test_apis = IdleTestApis
  /\ RestIdle

NextClient == NextAgentRun \/ NextTestApis

SpecClient == InitClient /\ [][NextClient]_vars

\* -------------------------------------------- standalone deduplication

Item(id, title, date, score) ==
  [id |-> id, title |-> title, source |-> "src", date |-> date,
   category |-> "regulatory", relevance_score |-> score]

\* The items the short input lists are drawn from.
DedupItems ==
  { Item(<<"nih", "NCT1">>, FdaTitle, "2026-10-05", 90),
    Item(<<"ctdata", "NCT1">>, TrialTitle, "2026-10-05", 85),
    Item(<<"ctdata", "NCT1">>, ToLower(FdaTitle), "", 85),
    Item(<<"regulatory", "serp", "h1">>, FdaTitle, "2026-10-05", 70),
    Item(<<"regulatory", "serp", "h2">>, ToLower(FdaTitle), "TBD", 50),
    Item(<<"nih", "NCT2">>, TrialTitle, "TBD", 90),
    Item(<<"regulatory", "serp", "h3">>, LongA, "2026-10-05", 70),
    Item(<<"regulatory", "serp", "h4">>, LongB, "2026-11-04T00:00:00", 40),
    Item(<<"regulatory", "serp", "h5">>, LongC, "2025-11-04", 100),
    Item(<<"nih", "NCT2">>, LongA, "2025-09-30", 90),
    Item(<<"regulatory", "serp", "h6">>, TrialTitle, "2026-10-05T09:00:00Z", 70),
    Item(<<"ctdata", "NCT2">>, FdaTitle, "2026-11-05", 85) }

BoundedSeq(S, n) == UNION {[1..k -> S] : k \in 0..n}

\* TopN + 1 items with pairwise different titles and rising scores
LongList ==
  [i \in 1..(TopN + 1) |->
     Item(<<"regulatory", "serp", "h1">>, Repeat("t", i), "2026-10-05", 40 + i)]

\* Two raw records with the same raw title, one from each of two different
\* sources, each normalised by its adapter.
RawRecord(api, title, key) ==
  IF api = "serp"
  THEN [title |-> title, link |-> "https://news.example/" \o key, date |-> "2026-10-05",
        source |-> "outlet"]
  ELSE [title |-> title, nctId |-> key, date |-> "2026-10-05", status |-> Recruiting]

RawPairs ==
  { [domain |-> d, apis |-> <<a1, a2>>, title |-> t, keys |-> <<"NCT1", k2>>] :
      d \in {Domains[i] : i \in 1..Len(Domains)},
      a1 \in {Apis[i] : i \in 1..Len(Apis)},
      a2 \in {Apis[i] : i \in 1..Len(Apis)},
      t \in {FdaTitle, LongA},
      k2 \in {"NCT1", "NCT2"} }

MergedPair(p) ==
  Normalise(p.apis[1], p.domain, <<RawRecord(p.apis[1], p.title, p.keys[1])>>)
    \o Normalise(p.apis[2], p.domain, <<RawRecord(p.apis[2], p.title, p.keys[2])>>)

DedupInputs ==
  { [pc |-> "input", origin |-> "list", pair |-> <<>>, input |-> l,
     out |-> NoOut, out2 |-> NoOut] : l \in BoundedSeq(DedupItems, MaxItems) \cup {LongList} }
  \cup
  { [pc |-> "input", origin |-> "pair", pair |-> p, input |-> MergedPair(p),
     out |-> NoOut, out2 |-> NoOut] : p \in {q \in RawPairs : q.apis[1] # q.apis[2]} }

InitDedup ==
  /\ now \in NowChoices
  /\ dd \in DedupInputs
  /\ prefs = DefaultPrefs
  /\ env = HealthyWorld
  /\ run = IdleRun
  /\ agents = IdleAgents
  /\ grouped = EmptyResults
  /\ domain_results = EmptyResults
  /\ pc = "idle"
  /\ http_client = "unopened"
  /\ test_apis = IdleTestApis
  /\ RestIdle

\* a call of _deduplicate_news_items(input)
DedupCall ==
  /\ dd.pc = "input"
  /\ dd' = [dd EXCEPT !.pc = "once", !.out = DeduplicateNewsItems(dd.input, now)]
  /\ UNCHANGED <<now, prefs, env, run, agents, grouped, domain_results, pc,
                 http_client, test_apis, rest>>

\* a second call, on the list the first one returned
DedupAgain ==
  /\ dd.pc = "once"
  /\ ~dd.out.raised
  /\ dd' = [dd EXCEPT !.pc = "twice", !.out2 = DeduplicateNewsItems(dd.out.items, now)]
  /\ UNCHANGED <<now, prefs, env, run, agents, grouped, domain_results, pc,
                 http_client, test_apis, rest>>

\* a call of _validate_and_filter_dates(input) alone
ValidateCall ==
  /\ dd.pc = "input"
  /\ dd' = [dd EXCEPT !.pc = "validated", !.out = ValidateAndFilterDates(dd.input, now)]
  /\ UNCHANGED <<now, prefs, env, run, agents, grouped, domain_results, pc,
                 http_client, test_apis, rest>>

NextDedup == DedupCall \/ DedupAgain \/ ValidateCall

SpecDedup == InitDedup /\ [][NextDedup]_vars

\* one sub-agent run alone
SpecRun == InitAgentRun /\ [][NextAgentRun]_vars

\* -------------------- a run_parallel_agents call, order of finishing observed

\* the next pending task in key order
NextInKeyOrder(n) == \A m \in DOMAIN agents : agents[m].pc = "pending" => n <= m

\* the task of sub-agent n finishes: any pending task while fewer than
\* MaxEarly have finished, then the pending tasks in key order
TaskFinishes(n) ==
  /\ Len(finished) < MaxEarly \/ NextInKeyOrder(n)
  /\ Settle(n, "none")
  /\ finished' = Append(finished, n)
  /\ UNCHANGED <<now, dd, prefs, env, run, grouped, domain_results, pc, test_apis,
                 services>>

InitOrder ==
  /\ now = Hours(400, 10)
  /\ dd = IdleDedup
  /\ prefs \in AggPrefs
  /\ env \in AggWorlds \cup {HealthyWorld}
  /\ run = IdleRun
  /\ agents = [n \in DOMAIN SubAgentKeys |->
                 [pc |-> "pending", result |-> InitialState(SubAgentKeys[n][1])]]
  /\ grouped = EmptyResults
  /\ domain_results = EmptyResults
  /\ pc = "gather"
  /\ http_client = "unopened"
  /\ test_apis = IdleTestApis
  /\ RestIdle

NextOrder ==
  \/ \E n \in DOMAIN SubAgentKeys : TaskFinishes(n)
  \/ GatherReturns

SpecOrder == InitOrder /\ [][NextOrder]_vars

\* ------------------------------- the handlers of the two fetch endpoints

\* category not in ["regulatory", "clinical", "market", "rwe"]
ValidCategories == {"regulatory", "clinical", "market", "rwe"}

\* the path parameters a fetch-category request is drawn from
RequestCategories == ValidCategories \cup {"pricing"}

\* the session ids a fetch-personalized request is drawn from
RequestSessionIds == {None, "", "s1"}

\* the Authorization headers a fetch-personalized request is drawn from, as
\* the words between blanks; <<>> is an absent header
RequestAuthorizations ==
  { <<>>, <<"Bearer", "good">>, <<"Bearer", "nosub">>, <<"Bearer", "expired">>,
    <<"Basic", "good">> }

\* verify_token(token): the payload of a token that decodes, None otherwise
VerifyToken(token) ==
  CASE token = <<"good">>  -> [ok |-> TRUE, sub |-> "u1"]
    [] token = <<"nosub">> -> [ok |-> TRUE, sub |-> None]
    [] OTHER               -> [ok |-> FALSE, sub |-> None]

\* user_identifier of a fetch-personalized request: the session id, replaced
\* by payload.get("sub") when the header carries a token that verifies
UserIdentifier(session_id, authorization) ==
  IF Len(authorization) >= 2 /\ authorization[1] = "Bearer"
       /\ VerifyToken(Tail(authorization)).ok
  THEN VerifyToken(Tail(authorization)).sub
  ELSE session_id

\* not user_identifier
Falsy(x) == x \in {None, ""}

\* Mutant of StatusOfRaise: the HTTPException raised in the try block
\* reaches the client as raised.
StatusOfRaisePassed(status) == status

\* "except Exception as e: raise HTTPException(status_code=500, ...)": an
\* HTTPException raised inside the try block is an Exception, it is caught
\* and replaced
StatusOfRaise(status) == 500

\* the handler starts run_parallel_agents with the profile p
StartAggregation(p) ==
  /\ prefs' = p
  /\ agents' = [n \in DOMAIN SubAgentKeys |->
                  [pc |-> "pending", result |-> InitialState(SubAgentKeys[n][1])]]
  /\ pc' = "gather"

\* POST /api/news/fetch-category/{category}
FetchCategoryCalled(category, p) ==
  /\ handler.pc = "idle"
  /\ pc = "idle"
  /\ IF category \notin ValidCategories
     THEN /\ handler' = [handler EXCEPT !.pc = "answered",
                                        !.endpoint = "fetch-category",
                                        !.category = category,
                                        !.status = StatusOfRaise(400)]
          /\ UNCHANGED <<prefs, agents, pc>>
     ELSE /\ handler' = [handler EXCEPT !.pc = "aggregating",
                                        !.endpoint = "fetch-category",
                                        !.category = category]
          /\ StartAggregation(p)
  /\ UNCHANGED <<now, dd, env, run, grouped, domain_results, http_client, test_apis,
                 finished, validation, chat_contexts>>

\* POST /api/news/fetch-personalized
FetchPersonalizedCalled(session_id, authorization, p) ==
  /\ handler.pc = "idle"
  /\ pc = "idle"
  /\ IF Falsy(UserIdentifier(session_id, authorization))
     THEN /\ handler' = [handler EXCEPT !.pc = "answered",
                                        !.endpoint = "fetch-personalized",
                                        !.session_id = session_id,
                                        !.authorization = authorization,
                                        !.status = StatusOfRaise(400)]
          /\ UNCHANGED <<prefs, agents, pc>>
     ELSE /\ handler' = [handler EXCEPT !.pc = "aggregating",
                                        !.endpoint = "fetch-personalized",
                                        !.session_id = session_id,
                                        !.authorization = authorization]
          /\ StartAggregation(p)
  /\ UNCHANGED <<now, dd, env, run, grouped, domain_results, http_client, test_apis,
                 finished, validation, chat_contexts>>

\* run_parallel_agents returned its map or raised; the handler answers
HandlerAnswers ==
  /\ handler.pc = "aggregating"
  /\ pc \in {"returned", "raised"}
  /\ handler' = [handler EXCEPT !.pc = "answered",
                                !.status = IF pc = "returned" THEN 200 ELSE 500]
  /\ UNCHANGED <<now, dd, prefs, env, run, agents, grouped, domain_results, pc,
                 http_client, test_apis, finished, validation, chat_contexts>>

InitHandler ==
  /\ now = Hours(400, 10)
  /\ dd = IdleDedup
  /\ prefs = DefaultPrefs
  /\ env \in AggWorlds \cup {HealthyWorld}
  /\ run = IdleRun
  /\ agents = IdleAgents
  /\ grouped = EmptyResults
  /\ domain_results = EmptyResults
  /\ pc = "idle"
  /\ http_client = "unopened"
  /\ test_apis = IdleTestApis
  /\ RestIdle

NextHandler ==
  \/ \E category \in RequestCategories, p \in AggPrefs : FetchCategoryCalled(category, p)
  \/ \E session_id \in RequestSessionIds, authorization \in RequestAuthorizations,
        p \in AggPrefs :
       FetchPersonalizedCalled(session_id, authorization, p)
  \/ \E n \in DOMAIN SubAgentKeys : TaskFinishes(n)
  \/ GatherReturns
  \/ HandlerAnswers

SpecHandler == InitHandler /\ [][NextHandler]_vars

\* ------------------------------------ OpenAIService.validate_heor_expertise

\* the variables of the news pipeline, untouched by the other services
pipeline == <<now, dd, prefs, env, run, agents, grouped, domain_results, pc,
              http_client, test_apis, finished>>

\* no call of the news pipeline is in progress
PipelineIdle ==
  /\ now = Hours(400, 10)
  /\ dd = IdleDedup
  /\ prefs = DefaultPrefs
  /\ env = HealthyWorld
  /\ run = IdleRun
  /\ agents = IdleAgents
  /\ grouped = EmptyResults
  /\ domain_results = EmptyResults
  /\ pc = "idle"
  /\ http_client = "unopened"
  /\ test_apis = IdleTestApis
  /\ finished = <<>>

\* run.status values the API reports
RunStatuses == {"queued", "in_progress", "completed", "failed", "expired"}

AssistantProcessingFailed == "Assistant processing failed"

\* the texts of the newest thread message a completed run is drawn from
ResponseTexts ==
  { "{\"is_valid\": true, \"response\": \"Acknowledged.\"}",
    "{\"is_valid\": false, \"response\": \"Please provide your expertise.\"}",
    "Here is the JSON you asked for: {\"is_valid\": true}" }

\* json.loads(response) on the texts of a validation run returns an object;
\* on any other text it raises JSONDecodeError
ResponseIsJson(response) ==
  response \in { "{\"is_valid\": true, \"response\": \"Acknowledged.\"}",
                 "{\"is_valid\": false, \"response\": \"Please provide your expertise.\"}" }

\* where run_assistant goes on with a run of the given status: the polling
\* loop, messages.list, or the return of "Assistant processing failed"
AfterRunStatus(v, status) ==
  CASE status \in {"queued", "in_progress"} ->
         [v EXCEPT !.pc = "runs_retrieve", !.status = status]
    [] status = "completed" ->
         [v EXCEPT !.pc = "messages_list", !.status = status]
    [] OTHER ->
         [v EXCEPT !.pc = "assistants_delete", !.status = status,
                   !.response = AssistantProcessingFailed]

\* validate_heor_expertise is called; it awaits create_thread
ValidateHeorExpertiseCalled ==
  /\ validation.pc \in {"idle", "returned"}
  /\ validation.calls < MaxValidations
  /\ validation' = [validation EXCEPT !.pc = "create_thread", !.status = "",
                                      !.polls = 0, !.response = "", !.result = "",
                                      !.raised = "",
                                      !.calls = @ + 1]
  /\ UNCHANGED <<pipeline, handler, chat_contexts>>

CreateThreadReturns ==
  /\ validation.pc = "create_thread"
  /\ validation' = [validation EXCEPT !.pc = "send_message"]
  /\ UNCHANGED <<pipeline, handler, chat_contexts>>

SendMessageReturns ==
  /\ validation.pc = "send_message"
  /\ validation' = [validation EXCEPT !.pc = "assistants_create"]
  /\ UNCHANGED <<pipeline, handler, chat_contexts>>

\* client.beta.assistants.create returns the temporary assistant
AssistantsCreateReturns ==
  /\ validation.pc = "assistants_create"
  /\ validation' = [validation EXCEPT !.pc = "runs_create", !.live = @ + 1]
  /\ UNCHANGED <<pipeline, handler, chat_contexts>>

\* run_assistant: client.beta.threads.runs.create returns a run
RunsCreateReturns(status) ==
  /\ validation.pc = "runs_create"
  /\ validation' = AfterRunStatus(validation, status)
  /\ UNCHANGED <<pipeline, handler, chat_contexts>>

\* run_assistant: one turn of the polling loop, runs.retrieve and the sleep
RunsRetrieveReturns(status) ==
  /\ validation.pc = "runs_retrieve"
  /\ validation.polls < MaxPolls
  /\ validation.polls + 1 = MaxPolls => status \notin {"queued", "in_progress"}
  /\ validation' = [AfterRunStatus(validation, status) EXCEPT !.polls = @ + 1]
  /\ UNCHANGED <<pipeline, handler, chat_contexts>>

\* run_assistant: messages.list returns the newest message, or no message
MessagesListReturns(text) ==
  /\ validation.pc = "messages_list"
  /\ validation' = [validation EXCEPT !.pc = "assistants_delete", !.response = text]
  /\ UNCHANGED <<pipeline, handler, chat_contexts>>

\* client.beta.assistants.delete returns; the response is parsed and the
\* call returns the parsed object or, on JSONDecodeError, the fallback
AssistantsDeleteReturns ==
  /\ validation.pc = "assistants_delete"
  /\ validation' = [validation EXCEPT
                      !.pc = "returned", !.live = @ - 1,
                      !.result = IF ResponseIsJson(validation.response)
                                 THEN "parsed" ELSE "fallback"]
  /\ UNCHANGED <<pipeline, handler, chat_contexts>>

\* the awaited API call raises: run_assistant logs and re-raises, the outer
\* "except Exception" of validate_heor_expertise returns the fallback
OpenAIRaises ==
  /\ validation.pc \in {"create_thread", "send_message", "assistants_create",
                         "runs_create", "runs_retrieve", "messages_list",
                         "assistants_delete"}
  /\ validation' = [validation EXCEPT !.pc = "returned", !.result = "fallback",
                                      !.raised = validation.pc]
  /\ UNCHANGED <<pipeline, handler, chat_contexts>>

InitValidation ==
  /\ PipelineIdle
  /\ ServicesIdle

NextValidation ==
  \/ ValidateHeorExpertiseCalled
  \/ CreateThreadReturns
  \/ SendMessageReturns
  \/ AssistantsCreateReturns
  \/ \E status \in RunStatuses : RunsCreateReturns(status)
  \/ \E status \in RunStatuses : RunsRetrieveReturns(status)
  \/ \E text \in ResponseTexts \cup {AssistantProcessingFailed} : MessagesListReturns(text)
  \/ AssistantsDeleteReturns
  \/ OpenAIRaises

SpecValidation == InitValidation /\ [][NextValidation]_vars

\* ---------------------------- CategoryChatService, one (session, category) key

\* ChatMessage(id=f"msg_{len(context.chat_history) + 1}", role=...), with
\* the call that appended it
ChatMessage(history, role, c) == [id |-> Len(history) + 1, role |-> role, call |-> c]

\* process_chat_message is called: the context is created if the key is new,
\* the user message is appended, the call awaits llm.ainvoke
ProcessChatMessageCalled ==
  /\ Len(chat_contexts.calls) < MaxChatCalls
  /\ LET c == Len(chat_contexts.calls) + 1
     IN  chat_contexts' =
           [chat_contexts EXCEPT
              !.exists = TRUE,
              !.chat_history = Append(@, ChatMessage(@, "user", c)),
              !.calls = Append(@, "llm")]
  /\ UNCHANGED <<pipeline, handler, validation>>

\* llm.ainvoke returns; _extract_search_queries returns a list that is never
\* empty, the call awaits _fetch_category_news
LlmReturns(c) ==
  /\ chat_contexts.calls[c] = "llm"
  /\ chat_contexts' = [chat_contexts EXCEPT !.calls[c] = "news"]
  /\ UNCHANGED <<pipeline, handler, validation>>

\* llm.ainvoke raises; nothing catches it, the call ends with the exception
LlmRaises(c) ==
  /\ chat_contexts.calls[c] = "llm"
  /\ chat_contexts' = [chat_contexts EXCEPT !.calls[c] = "raised"]
  /\ UNCHANGED <<pipeline, handler, validation>>

\* _fetch_category_news returns (its own errors give []); the assistant
\* message is appended to context.chat_history as it is now, the call returns
FetchCategoryNewsReturns(c) ==
  /\ chat_contexts.calls[c] = "news"
  /\ chat_contexts' =
       [chat_contexts EXCEPT
          !.chat_history = Append(@, ChatMessage(@, "assistant", c)),
          !.calls[c] = "returned"]
  /\ UNCHANGED <<pipeline, handler, validation>>

\* clear_chat_history: the context's chat_history is rebound to a new list
ClearChatHistory ==
  /\ chat_contexts.exists
  /\ chat_contexts' = [chat_contexts EXCEPT !.chat_history = <<>>]
  /\ UNCHANGED <<pipeline, handler, validation>>

InitChat ==
  /\ PipelineIdle
  /\ ServicesIdle

NextChat ==
  \/ ProcessChatMessageCalled
  \/ \E c \in DOMAIN chat_contexts.calls : LlmReturns(c)
  \/ \E c \in DOMAIN chat_contexts.calls : LlmRaises(c)
  \/ \E c \in DOMAIN chat_contexts.calls : FetchCategoryNewsReturns(c)
  \/ ClearChatHistory

SpecChat == InitChat /\ [][NextChat]_vars

\* ------------------------------------------- claims on deduplication

\* the input of the standalone call has at most TopN items, and date
\* sanitation keeps every one of them
SmallDateValidInput ==
  /\ Len(dd.input) <= TopN
  /\ \A i \in 1..Len(dd.input) : ValidateOne(dd.input[i], now).kind = "keep"

Returned == dd.pc = "once" /\ ~dd.out.raised

\* output positions whose title has the key k
KeptWithTitleKey(k) == {j \in 1..Len(dd.out.items) : TitleKey(dd.out.items[j].title) = k}

\* output positions whose id, the source-kind prefix stripped, is nct
KeptWithNct(nct) ==
  {j \in 1..Len(dd.out.items) :
     IsRegistryId(dd.out.items[j].id) /\ NctIdOf(dd.out.items[j].id) = nct}

NoTwoOutputsShareTitleKey ==
  \A i, j \in 1..Len(dd.out.items) :
    i # j => TitleKey(dd.out.items[i].title) # TitleKey(dd.out.items[j].title)

\* input[i] is a registry item whose identifier an earlier input item carries
RegistryRepeat(i) ==
  /\ IsRegistryId(dd.input[i].id)
  /\ \E h \in 1..(i - 1) :
       IsRegistryId(dd.input[h].id) /\ NctIdOf(dd.input[h].id) = NctIdOf(dd.input[i].id)

\* C5 as stated: no two output items share the lowercased 50-character title
\* prefix, and from an input of at most 10 date-valid items exactly one item
\* of every group sharing that prefix is kept.
C5_Original ==
  Returned =>
    /\ NoTwoOutputsShareTitleKey
    /\ SmallDateValidInput =>
         \A i \in 1..Len(dd.input) :
           Cardinality(KeptWithTitleKey(TitleKey(dd.input[i].title))) = 1

\* C5 amended: no two output items share the lowercased 50-character title
\* prefix; from an input of at most 10 date-valid items at most one item of
\* every group sharing that prefix is kept, and exactly one when the group
\* holds an item that is not a registry item whose identifier an earlier
\* input item carries.
C5_TitleDedup ==
  Returned =>
    /\ NoTwoOutputsShareTitleKey
    /\ SmallDateValidInput =>
         \A i \in 1..Len(dd.input) :
           /\ Cardinality(KeptWithTitleKey(TitleKey(dd.input[i].title))) <= 1
           /\ ~RegistryRepeat(i) =>
                Cardinality(KeptWithTitleKey(TitleKey(dd.input[i].title))) = 1

\* two input items whose titles differ only in case collapsed to one
C5_Witness ==
  /\ Returned
  /\ SmallDateValidInput
  /\ \E i, j \in 1..Len(dd.input) :
       /\ i < j
       /\ dd.input[i].title # dd.input[j].title
       /\ TitleKey(dd.input[i].title) = TitleKey(dd.input[j].title)
       /\ ~RegistryRepeat(j)
       /\ Cardinality(KeptWithTitleKey(TitleKey(dd.input[i].title))) = 1

\* the registry identifiers X for which the input holds both nih_X and ctdata_X
BothKinds ==
  {nct \in {NctIdOf(dd.input[i].id) : i \in 1..Len(dd.input)} :
     /\ \E i \in 1..Len(dd.input) : dd.input[i].id = <<"nih">> \o nct
     /\ \E i \in 1..Len(dd.input) : dd.input[i].id = <<"ctdata">> \o nct}

\* the first input position that carries the registry identifier nct
FirstWithNct(nct) ==
  CHOOSE i \in 1..Len(dd.input) :
    /\ IsRegistryId(dd.input[i].id) /\ NctIdOf(dd.input[i].id) = nct
    /\ \A h \in 1..(i - 1) :
         ~(IsRegistryId(dd.input[h].id) /\ NctIdOf(dd.input[h].id) = nct)

\* C6 as stated: when the input (at most 10 date-valid items) holds nih_X and
\* ctdata_X, the output holds exactly one item whose stripped id is X,
\* whatever the other items and titles are.
C6_Original ==
  (Returned /\ SmallDateValidInput) =>
    \A nct \in BothKinds : Cardinality(KeptWithNct(nct)) = 1

\* C6 amended: when the input (at most 10 date-valid items) holds nih_X and
\* ctdata_X, the output holds at most one item whose stripped id is X, and
\* exactly one when the first input item that carries X has a title prefix
\* that no earlier input item has.
C6_RegistryDedup ==
  (Returned /\ SmallDateValidInput) =>
    \A nct \in BothKinds :
      /\ Cardinality(KeptWithNct(nct)) <= 1
      /\ (\A h \in 1..(FirstWithNct(nct) - 1) :
            TitleKey(dd.input[h].title) # TitleKey(dd.input[FirstWithNct(nct)].title))
           => Cardinality(KeptWithNct(nct)) = 1

\* nih_X and ctdata_X with different titles went in, one item with X came out
C6_Witness ==
  /\ Returned
  /\ SmallDateValidInput
  /\ \E nct \in BothKinds :
       /\ Cardinality(KeptWithNct(nct)) = 1
       /\ \E i, j \in 1..Len(dd.input) :
            /\ dd.input[i].id = <<"nih">> \o nct
            /\ dd.input[j].id = <<"ctdata">> \o nct
            /\ TitleKey(dd.input[i].title) # TitleKey(dd.input[j].title)

\* C7 as stated: two raw records with the same raw title from two different
\* sources of one category yield exactly one item after normalisation and
\* deduplication.
C7_Original ==
  (Returned /\ dd.origin = "pair") => Len(dd.out.items) = 1

\* C8: a second deduplication of a deduplicated list, at the same time,
\* returns that list unchanged.
C8_Idempotent ==
  dd.pc = "twice" => (~dd.out2.raised /\ dd.out2.items = dd.out.items)

\* the first call removed a duplicate, replaced a date by the sentinel and
\* returned two items of equal score
C8_Witness ==
  /\ dd.pc = "twice"
  /\ Len(dd.out.items) < Len(dd.input)
  /\ \E i \in 1..Len(dd.out.items) : dd.out.items[i].date = DateNotFound
  /\ \E i, j \in 1..Len(dd.out.items) :
       i # j /\ dd.out.items[i].relevance_score = dd.out.items[j].relevance_score

\* what C9 says _validate_and_filter_dates does with one item: keep it with
\* its date string when the date parses into the 365 days before now, keep
\* it with the sentinel when the date is empty or does not parse, drop it
\* otherwise
ClaimedOne(item, t) ==
  LET parsed == IF item.date # "" THEN DateParse(item.date) ELSE NoDate
  IN  IF ~parsed.ok THEN <<"sentinel">>
      ELSE IF t - Hours(YearDays, 0) <= parsed.at /\ parsed.at <= t
           THEN <<item.date>>
           ELSE <<>>

RECURSIVE ClaimedDates(_, _, _)
ClaimedDates(items, i, t) ==
  IF i > Len(items) THEN <<>> ELSE ClaimedOne(items[i], t) \o ClaimedDates(items, i + 1, t)

\* C9 as stated: date sanitation returns, in input order, exactly the items
\* whose date parses into the 365 days before now (with their date string)
\* and the items whose date is empty or unparsable (with the sentinel, in
\* either capitalisation).
C9_Original ==
  dd.pc = "validated" =>
    /\ ~dd.out.raised
    /\ Len(dd.out.items) = Len(ClaimedDates(dd.input, 1, now))
    /\ \A i \in 1..Len(dd.out.items) :
         IF ClaimedDates(dd.input, 1, now)[i] = "sentinel"
         THEN dd.out.items[i].date \in {"date not found", "Date not found"}
         ELSE dd.out.items[i].date = ClaimedDates(dd.input, 1, now)[i]

\* ---------------------------------------- claims on the sub-agent runs

\* The stage-by-stage run and the whole-run operator used by the
\* aggregator agree on the state a completed run returns.
StepwiseAgrees ==
  (run.pc = "returned" /\ run.raised_in = "none")
    => run.state = RunSingleAgentResult(run.domain, run.api, prefs, env, "none")

Failed(n) == agents[n].result.processing_status = "error"

NoFailureItems(n) ==
  RunSingleAgentResult(SubAgentKeys[n][1], SubAgentKeys[n][2], prefs, env, "none").news_items

RECURSIVE ConcatFor(_, _, _)
ConcatFor(domain, contribution, n) ==
  IF n > Len(SubAgentKeys) THEN <<>>
  ELSE (IF SubAgentKeys[n][1] = domain THEN contribution[n] ELSE <<>>)
         \o ConcatFor(domain, contribution, n + 1)

C2_Original == pc # "raised"

\* the generate_queries stage of the run is over: the workflow moved on, or
\* the oracle call raised and the run returned
AfterGenerateQueries ==
  \/ run.pc \in {"search_api", "filter_relevance", "finalize"}
  \/ run.pc = "returned" /\ run.raised_in = "none"
  \/ run.pc = "returned" /\ run.raised_in = "generate_queries" /\ env.gq.kind = "raise"

\* C3: after the generate_queries stage search_queries is a non-empty list
\* of non-empty strings, also when the oracle call raises or its text does
\* not parse.
C3_Original ==
  AfterGenerateQueries =>
    /\ run.state.search_queries # <<>>
    /\ \A i \in 1..Len(run.state.search_queries) : run.state.search_queries[i] # ""

\* C4: after the generate_queries stage there are between 3 and 7 search
\* queries, whatever text the oracle answered.
C4_Original ==
  (AfterGenerateQueries /\ env.gq.kind = "content") =>
    (Len(run.state.search_queries) >= 3 /\ Len(run.state.search_queries) <= 7)

InRange(items) ==
  \A i \in 1..Len(items) : items[i].relevance_score >= 0 /\ items[i].relevance_score <= 100

\* C10: every item held anywhere in a sub-agent run, in a settled
\* sub-agent result, in the grouped lists and in the returned map has a
\* relevance_score within [0.0, 1.0] (0..100 hundredths).
C10_ScoreInRange ==
  /\ InRange(run.collected)
  /\ InRange(run.state.news_items)
  /\ InRange(run.filtered_items)
  /\ \A n \in DOMAIN agents : InRange(agents[n].result.news_items)
  /\ \A domain \in DomainSet : InRange(grouped[domain]) /\ InRange(domain_results[domain])

\* the oracle answered 1.7 and then -0.3, and the two rescored items hold
\* 1.0 and 0.0
C10_Witness ==
  /\ run.pc = "filter_relevance"
  /\ run.fi = 3
  /\ ScriptAt(env.score, 1).content = "1.7"
  /\ ScriptAt(env.score, 2).content = "-0.3"
  /\ run.state.news_items[1].relevance_score = 100
  /\ run.state.news_items[2].relevance_score = 0

\* ------------------------------------- claims on the scoring stage

\* the profile keywords of the model, as characters
KeywordChars(keyword) ==
  CASE keyword = "healthcare" -> <<"h", "e", "a", "l", "t", "h", "c", "a", "r", "e">>
    [] keyword = "medical"    -> <<"m", "e", "d", "i", "c", "a", "l">>
    [] OTHER                  -> <<"r", "e", "g", "u", "l", "a", "t", "o", "r", "y">>

Contains(text, part) ==
  \E i \in 0..(Len(text) - Len(part)) : SubSeq(text, i + 1, i + Len(part)) = part

\* the number of profile keywords found in the item's title, ignoring case
\* (the raw records of the model carry no snippet)
KeywordMatchCount(item, p) ==
  Cardinality({k \in 1..Len(p.keywords) :
                 Contains(ToLower(item.title), KeywordChars(p.keywords[k]))})

\* the items of the search stage for which the scoring stage called the oracle
ScoredByOracle ==
  {run.collected[run.oracle_calls[c].item] :
     c \in {b \in 1..Len(run.oracle_calls) : run.oracle_calls[b].prompt = "score"}}

\* C11: the oracle is never called for an item that matches none of the
\* profile's keywords and comes from a source that is not trusted (the
\* scenario's "unknown-blog"): such an item is removed before scoring.
C11_Original ==
  \A item \in ScoredByOracle :
    ~(KeywordMatchCount(item, prefs) = 0 /\ item.source = "unknown-blog")

\* the items submitted for scoring: state.news_items[:20] of the search stage
Submitted == 1..Len(Prefix(run.collected, ScoreLimit))

\* the score the oracle's reply to the i-th scoring prompt stands for
GivenScore(i) ==
  LET score == FloatParse(ScriptAt(env.score, i).content)
  IN  IF score.ok THEN Clamp(score) ELSE DefaultScore

OracleRaisedFor(i) == ScriptAt(env.score, i).kind = "raise"

\* the scoring loop is over and the stage has returned
ScoringDone ==
  /\ run.collected # <<>>
  /\ run.pc = "finalize" \/ (run.pc = "returned" /\ run.raised_in = "none")

\* C12: whichever scoring calls raise, the oracle is called once for every
\* submitted item in order, every item whose call returned holds the score
\* of its reply, every such item that reaches the threshold is collected,
\* and a run in which no other exception occurs ends completed.
C12_ScoringContinues ==
  /\ run.pc = "filter_relevance" =>
       /\ run.oracle_calls =
            <<[prompt |-> "queries", item |-> 0]>>
              \o [i \in 1..(run.fi - 1) |-> [prompt |-> "score", item |-> i]]
       /\ \A i \in 1..(run.fi - 1) :
            ~OracleRaisedFor(i) => run.state.news_items[i].relevance_score = GivenScore(i)
  /\ ScoringDone =>
       /\ Len(run.oracle_calls) = 1 + Cardinality(Submitted)
       /\ Len(run.filtered_items) =
            Cardinality({i \in Submitted : ~OracleRaisedFor(i) /\ GivenScore(i) >= Threshold})
  /\ (run.pc = "returned" /\ run.raised_in = "none") =>
       run.state.processing_status = "completed"

\* the oracle raised for one item, a later item was scored and returned, and
\* the run ended completed
C12_Witness ==
  /\ run.pc = "returned"
  /\ run.raised_in = "none"
  /\ run.state.processing_status = "completed"
  /\ \E i, j \in Submitted :
       /\ i < j
       /\ OracleRaisedFor(i)
       /\ ~OracleRaisedFor(j)
       /\ \E k \in 1..Len(run.state.news_items) :
            /\ run.state.news_items[k].id = run.collected[j].id
            /\ run.state.news_items[k].relevance_score = GivenScore(j)

\* C13: an item whose scoring call raises is given the fallback score and is
\* collected like an item whose reply is not a number.
C13_Original ==
  /\ run.pc = "filter_relevance" =>
       \A i \in 1..(run.fi - 1) :
         OracleRaisedFor(i) => run.state.news_items[i].relevance_score = DefaultScore
  /\ ScoringDone =>
       Len(run.filtered_items) =
         Cardinality({i \in Submitted : OracleRaisedFor(i) \/ GivenScore(i) >= Threshold})

\* ------------------------------------- claims on the returned map

NonIncreasing(items) ==
  \A i \in 1..(Len(items) - 1) : items[i].relevance_score >= items[i + 1].relevance_score

\* C14: every list of the map run_parallel_agents returns has at most 10
\* items and is in non-increasing order of relevance_score.
C14_TopSorted ==
  pc = "returned" =>
    \A domain \in DomainSet :
      Len(domain_results[domain]) <= 10 /\ NonIncreasing(domain_results[domain])

\* the three sub-agents of a domain produced more than 10 items, of which
\* 10 were returned, the first with a higher score than the last
C14_Witness ==
  /\ pc = "returned"
  /\ \E domain \in DomainSet :
       /\ Len(grouped[domain]) > 10
       /\ Len(domain_results[domain]) = 10
       /\ domain_results[domain][1].relevance_score > domain_results[domain][10].relevance_score

\* the items sub-agent n handed back, at their place in a grouped list
RECURSIVE HandedBack(_, _)
HandedBack(domain, n) ==
  IF n > Len(SubAgentKeys) THEN <<>>
  ELSE (IF SubAgentKeys[n][1] = domain THEN agents[n].result.news_items ELSE <<>>)
         \o HandedBack(domain, n + 1)

\* C16: when run_parallel_agents has gone past the gather, every one of the
\* 12 sub-agent runs has settled and the grouped lists hold the items of
\* every sub-agent, in key order.
C16_AfterAllSettled ==
  pc \in {"returned", "raised"} =>
    /\ \A n \in DOMAIN agents : agents[n].pc = "settled"
    /\ \A domain \in DomainSet : grouped[domain] = HandedBack(domain, 1)

\* the call returned and the items of the last sub-agent in key order are
\* the end of its domain's grouped list
C16_Witness ==
  /\ pc = "returned"
  /\ agents[Len(SubAgentKeys)].result.news_items # <<>>
  /\ LET last == agents[Len(SubAgentKeys)].result.news_items
         all  == grouped[SubAgentKeys[Len(SubAgentKeys)][1]]
     IN  /\ Len(all) > Len(last)
         /\ SubSeq(all, Len(all) - Len(last) + 1, Len(all)) = last

\* ------------------------------------- claims on the search stage

\* what the source answers to the j-th query of the run
HttpReply(j) == ScriptAt(env.http[run.api], j)

\* the items of the first k queries: those of the answered queries only
RECURSIVE ItemsOfAnswered(_)
ItemsOfAnswered(k) ==
  IF k = 0 THEN <<>>
  ELSE ItemsOfAnswered(k - 1)
         \o (IF HttpReply(k).kind = "ok"
             THEN Normalise(run.api, run.domain, HttpReply(k).records)
             ELSE <<>>)

\* C15: in the search stage a query whose HTTP call errors, times out or
\* returns a non-200 status adds nothing and raises nothing: the loop goes
\* on to the next query with the items collected so far, and the stage
\* returns after the last query with the items of all answered queries.
C15_SearchDegrades ==
  /\ run.pc = "search_api" =>
       /\ run.collected = ItemsOfAnswered(run.qi - 1)
       /\ run.in_flight # "none" => ENABLED SearchQueryStep
  /\ (run.pc \in {"filter_relevance", "finalize"}
        \/ (run.pc = "returned" /\ run.raised_in = "none")) =>
       /\ run.qi = Len(run.state.search_queries) + 1
       /\ run.collected = ItemsOfAnswered(Len(run.state.search_queries))

\* the stage returned with the items of an earlier and of a later query
\* around a query whose call failed
C15_Witness ==
  /\ run.pc = "filter_relevance"
  /\ \E j, k, l \in 1..Len(run.state.search_queries) :
       /\ j < k /\ k < l
       /\ HttpReply(j).kind = "ok" /\ HttpReply(j).records # <<>>
       /\ HttpReply(k).kind \in {"error", "non200"}
       /\ HttpReply(l).kind = "ok" /\ HttpReply(l).records # <<>>
       /\ Len(run.collected) >= 2

\* ------------------------------------- claims on the fallback queries

\* the oracle answered the query prompt with a text json.loads rejects
Unparseable == env.gq.kind = "content" /\ ~JsonLoads(env.gq.content).ok

\* generate_queries has returned and its list is still in the state
QueriesSet ==
  \/ run.pc \in {"search_api", "filter_relevance", "finalize"}
  \/ run.pc = "returned" /\ run.raised_in = "none"

\* a list that depends on the domain and one expertise string only
ListFor(d, e) ==
  << d \o " " \o e, d \o " updates " \o e, d \o " news " \o e, d \o " research " \o e >>

\* C17: when the oracle's response cannot be parsed, generate_queries sets
\* a list fixed by the domain and the first expertise string of the profile
\* alone, makes no further oracle call and no network call, and one query
\* of the list is made of the domain and that expertise string.
C17_FallbackDeterministic ==
  (Unparseable /\ QueriesSet) =>
    LET e == IF prefs.expertise_areas # <<>> THEN prefs.expertise_areas[1] ELSE "healthcare"
    IN  /\ run.state.search_queries = ListFor(run.domain, e)
        /\ \E i \in DOMAIN run.state.search_queries :
             run.state.search_queries[i] = run.domain \o " " \o e
        /\ run.oracle_calls[1] = [prompt |-> "queries", item |-> 0]
        /\ (run.pc = "search_api" /\ run.qi = 1 /\ run.in_flight = "none") =>
             /\ run.oracle_calls = <<[prompt |-> "queries", item |-> 0]>>
             /\ http_client = "unopened"

\* the fallback ran for domain "regulatory" and a profile whose first
\* expertise is "pediatric oncology" and whose keywords differ from it
C17_Witness ==
  /\ Unparseable
  /\ run.pc = "search_api" /\ run.qi = 1 /\ run.in_flight = "none"
  /\ run.domain = "regulatory"
  /\ prefs.expertise_areas # <<>>
  /\ prefs.expertise_areas[1] = "pediatric oncology"
  /\ prefs.keywords = <<"medical">>
  /\ run.state.search_queries[1] = "regulatory pediatric oncology"

\* the number of requests of the search stage issued so far
Issued == (run.qi - 1) + (IF run.in_flight = "none" THEN 0 ELSE 1)

\* C18 as stated: the calls of one search stage are in flight together, so
\* once the call for query k has returned, the call for query k+1 has been
\* issued already.
C18_Original ==
  (run.pc = "search_api" /\ run.qi >= 2 /\ run.qi <= Len(run.state.search_queries)) =>
    Issued >= run.qi

\* ------------------------------------- claims on the shared HTTP client

\* C19: whatever test-apis handlers have finished or are in progress, the
\* shared client is not closed, no request of a handler or of a sub-agent
\* run is refused by it, and the run collects the items of every query its
\* source answered.
C19_ClientUsable ==
  /\ http_client # "closed"
  /\ run.in_flight # "refused"
  /\ \A h \in DOMAIN test_apis : test_apis[h].call # "refused"
  /\ run.pc = "search_api" => run.collected = ItemsOfAnswered(run.qi - 1)

\* a request of the run went out while one handler had finished and another
\* was waiting for its own request, and its answer brought items
C19_Witness ==
  /\ run.pc = "search_api"
  /\ run.qi >= 2
  /\ run.in_flight = "none"
  /\ {"done", "serp_wait"} \subseteq run.tests_at_issue
  /\ HttpReply(run.qi - 1).kind = "ok"
  /\ HttpReply(run.qi - 1).records # <<>>
  /\ run.collected # <<>>

\* ------------------------------------- claims on first-seen wins

\* every input item passes the date filter
DateValidInput ==
  \A i \in 1..Len(dd.input) : ValidateOne(dd.input[i], now).kind = "keep"

\* the output item o is the input item at position i, its date sanitised
IsInputAt(o, i) ==
  /\ ValidateOne(dd.input[i], now).kind = "keep"
  /\ ValidateOne(dd.input[i], now).item = o

\* no earlier input item has the title key of the item at position i
FirstWithTitleKey(i) ==
  \A h \in 1..(i - 1) : TitleKey(dd.input[h].title) # TitleKey(dd.input[i].title)

\* C20 as stated: a kept item is the first input item that carries its
\* title key, and the first that carries its registry identifier.
C20_Original ==
  Returned =>
    \A j \in 1..Len(dd.out.items) :
      \E i \in 1..Len(dd.input) :
        /\ IsInputAt(dd.out.items[j], i)
        /\ FirstWithTitleKey(i)
        /\ ~RegistryRepeat(i)

\* C20 amended: for an input of date-valid items, a kept item is the first
\* input item that carries its registry identifier, and the first that
\* carries its title key among the input items that are not registry items
\* whose identifier an earlier input item carries.
C20_FirstSeen ==
  (Returned /\ DateValidInput) =>
    \A j \in 1..Len(dd.out.items) :
      \E i \in 1..Len(dd.input) :
        /\ IsInputAt(dd.out.items[j], i)
        /\ ~RegistryRepeat(i)
        /\ \A h \in 1..(i - 1) :
             TitleKey(dd.input[h].title) = TitleKey(dd.input[i].title) => RegistryRepeat(h)

\* an item was kept although an earlier input item, skipped for its
\* registry identifier, has the same title key
C20_Witness ==
  /\ Returned
  /\ DateValidInput
  /\ \E h, i \in 1..Len(dd.input) :
       /\ h < i
       /\ RegistryRepeat(h)
       /\ TitleKey(dd.input[h].title) = TitleKey(dd.input[i].title)
       /\ \E j \in 1..Len(dd.out.items) : IsInputAt(dd.out.items[j], i)
       /\ \A j \in 1..Len(dd.out.items) : ~IsInputAt(dd.out.items[j], h)
  /\ Len(dd.out.items) < Len(dd.input)

\* ------------------------------------- claims on the order of the stages

\* the scoring calls made so far
ScoringCalls == {k \in DOMAIN run.oracle_calls : run.oracle_calls[k].prompt = "score"}

\* the relevance filter has run to its end on the items of the search stage
FilterHasRun ==
  \/ run.collected = <<>> /\ ScoringCalls = {}
  \/ /\ run.collected # <<>>
     /\ run.fi = Len(Prefix(run.collected, ScoreLimit)) + 1
     /\ Cardinality(ScoringCalls) = run.fi - 1

\* C21: the stages of a sub-agent run go in the order generate_queries,
\* search, relevance filter, finalize: a source call is issued only in the
\* search stage and after the query call, a scoring call only after the
\* search stage has gone through all its queries, and processing_status is
\* "completed" only after the relevance filter has run.
C21_StageOrder ==
  /\ run.pc = "generate_queries" =>
       run.oracle_calls = <<>> /\ http_client = "unopened" /\ run.in_flight = "none"
  /\ (run.in_flight # "none" \/ http_client # "unopened") =>
       /\ run.oracle_calls # <<>>
       /\ run.oracle_calls[1].prompt = "queries"
  /\ run.in_flight # "none" =>
       /\ ScoringCalls = {}
       /\ run.pc = "search_api" \/ (run.pc = "returned" /\ run.raised_in = "search_api")
  /\ run.pc = "search_api" => ScoringCalls = {}
  /\ ScoringCalls # {} =>
       /\ run.oracle_calls[1].prompt = "queries"
       /\ run.in_flight = "none"
       /\ run.pc \in {"filter_relevance", "finalize", "returned"}
       /\ run.raised_in \notin {"generate_queries", "search_api"}
       /\ run.pc # "returned" => run.qi = Len(run.state.search_queries) + 1
  /\ run.state.processing_status = "completed" =>
       /\ run.pc = "returned"
       /\ run.raised_in = "none"
       /\ run.qi = Len(run.state.search_queries) + 1
       /\ FilterHasRun

\* a run completed after at least two source calls and two scoring calls
C21_Witness ==
  /\ run.pc = "returned"
  /\ run.state.processing_status = "completed"
  /\ run.qi >= 3
  /\ http_client = "opened"
  /\ Cardinality(ScoringCalls) >= 2
  /\ run.state.news_items # <<>>

\* ------------------------------------- claims on the number of oracle calls

\* the query calls made so far
QueryCalls == {k \in DOMAIN run.oracle_calls : run.oracle_calls[k].prompt = "queries"}

\* C22: a sub-agent run issues at most one query call and at most 20
\* scoring calls however many items its search stage produced; with the 12
\* sub-agent runs of one run_parallel_agents call that is at most 12 query
\* calls and 240 scoring calls.
C22_CallBounds ==
  /\ Cardinality(QueryCalls) <= 1
  /\ Cardinality(ScoringCalls) <= 20
  /\ Len(run.collected) >= 20 /\ run.pc = "finalize" => Cardinality(ScoringCalls) = 20
  /\ Len(SubAgentKeys) = 12
  /\ Len(SubAgentKeys) * 1 <= 12
  /\ Len(SubAgentKeys) * 20 <= 240

\* a run whose search stage produced more than 20 items has finished its
\* scoring stage with 20 scoring calls
C22_Witness ==
  /\ run.pc = "finalize"
  /\ Len(run.collected) > 20
  /\ Cardinality(QueryCalls) = 1
  /\ Cardinality(ScoringCalls) = 20

\* ------------------------------------- claims on the inclusion threshold

\* what the search stage of sub-agent n found in the environment of the call
FoundBy(n) ==
  SearchApi(SubAgentKeys[n][2], SubAgentKeys[n][1],
            GenerateQueries(SubAgentKeys[n][1], prefs, env.gq).search_queries,
            env.http[SubAgentKeys[n][2]])

\* the oracle rated the i-th item submitted by a sub-agent below 0.4
RatedBelow(i) ==
  /\ ScriptAt(env.score, i).kind = "content"
  /\ FloatParse(ScriptAt(env.score, i).content).ok
  /\ ~FloatParse(ScriptAt(env.score, i).content).nan
  /\ FloatParse(ScriptAt(env.score, i).content).value < 40

\* C23: every item of the map run_parallel_agents returns has a
\* relevance_score of at least 0.4, and so has every item a sub-agent run
\* hands back.
C23_AboveThreshold ==
  /\ pc = "returned" =>
       \A domain \in DomainSet :
         \A i \in DOMAIN domain_results[domain] :
           domain_results[domain][i].relevance_score >= 40
  /\ \A n \in DOMAIN agents :
       \A i \in DOMAIN agents[n].result.news_items :
         agents[n].result.news_items[i].relevance_score >= 40
  /\ run.pc \in {"finalize", "returned"} =>
       \A i \in DOMAIN run.state.news_items : run.state.news_items[i].relevance_score >= 40

\* the call returned a non-empty list for the domain of a sub-agent that had
\* found an item the oracle rated below 0.4; no returned item has its id
C23_Witness ==
  /\ pc = "returned"
  /\ \E n \in DOMAIN agents :
       /\ ~Failed(n)
       /\ domain_results[SubAgentKeys[n][1]] # <<>>
       /\ \E i \in DOMAIN FoundBy(n) :
            /\ i <= 20
            /\ RatedBelow(i)
            /\ \A domain \in DomainSet :
                 \A j \in DOMAIN domain_results[domain] :
                   domain_results[domain][j].id # FoundBy(n)[i].id

\* ------------------------------------- claims on the writers of the map

\* C24: the grouped lists and the returned map are written in one step only,
\* taken by run_parallel_agents itself when all 12 sub-agent tasks have
\* settled; no step of a sub-agent task changes them, and once written they
\* are not written again.
C24_SingleWriter ==
  [][(domain_results' # domain_results \/ grouped' # grouped) =>
       /\ pc = "gather"
       /\ \A n \in DOMAIN agents : agents[n].pc = "settled"
       /\ agents' = agents
       /\ pc' \in {"returned", "raised"}
       /\ domain_results = EmptyResults
       /\ grouped = EmptyResults]_vars

\* the map has been written for two domains after all tasks settled, one of
\* them having failed
C24_Witness ==
  /\ pc = "returned"
  /\ \E n \in DOMAIN agents : Failed(n)
  /\ \E d1, d2 \in DomainSet : d1 # d2 /\ domain_results[d1] # <<>> /\ domain_results[d2] # <<>>

\* ------------------------------------- claims on termination

\* the call can take a step: a task can settle, or the gather can return
CanStep ==
  /\ pc = "gather"
  /\ (\E n \in DOMAIN agents : agents[n].pc = "pending")
       \/ (\A n \in DOMAIN agents : agents[n].pc = "settled")

\* C25 as stated: a run_parallel_agents call that has not returned its
\* result map can still take a step towards returning it.
C25_Original == pc \in {"gather", "raised"} => CanStep

\* ------------------------------------- claims on the order of finishing

\* the items sub-agent n produces in the environment of the call
ProducedBy(n) == SettledResults[prefs][env][n]["none"].news_items

RECURSIVE ProducedFor(_, _)
ProducedFor(domain, n) ==
  IF n > Len(SubAgentKeys) THEN <<>>
  ELSE (IF SubAgentKeys[n][1] = domain THEN ProducedBy(n) ELSE <<>>)
         \o ProducedFor(domain, n + 1)

\* task a finished before task b
FinishedBefore(a, b) ==
  \E i, j \in DOMAIN finished : i < j /\ finished[i] = a /\ finished[j] = b

\* C26: the returned map is fixed by the item lists the sub-agents produce:
\* in whatever order the tasks finished, each domain's list is the
\* deduplication of its sub-agents' lists taken in key order.
C26_OrderIndependent ==
  pc = "returned" =>
    \A domain \in DomainSet :
      /\ grouped[domain] = ProducedFor(domain, 1)
      /\ domain_results[domain] = DeduplicateNewsItems(ProducedFor(domain, 1), now).items

\* the call returned after a later sub-agent of a domain finished before an
\* earlier one; both produced an item with the same registry identifier, and
\* the returned list holds the item of the earlier key
C26_Witness ==
  /\ pc = "returned"
  /\ \E a, b \in DOMAIN agents :
       /\ a < b
       /\ SubAgentKeys[a][1] = SubAgentKeys[b][1]
       /\ FinishedBefore(b, a)
       /\ \E i \in DOMAIN ProducedBy(a), j \in DOMAIN ProducedBy(b) :
            /\ IsRegistryId(ProducedBy(a)[i].id)
            /\ IsRegistryId(ProducedBy(b)[j].id)
            /\ ProducedBy(a)[i].id # ProducedBy(b)[j].id
            /\ NctIdOf(ProducedBy(a)[i].id) = NctIdOf(ProducedBy(b)[j].id)
            /\ \E k \in DOMAIN domain_results[SubAgentKeys[a][1]] :
                 domain_results[SubAgentKeys[a][1]][k].id = ProducedBy(a)[i].id
            /\ \A k \in DOMAIN domain_results[SubAgentKeys[a][1]] :
                 domain_results[SubAgentKeys[a][1]][k].id # ProducedBy(b)[j].id

\* ------------------------------------- claims on why an item is dropped

\* the input item at position i passes the date filter
DateValidAt(i) == ValidateOne(dd.input[i], now).kind = "keep"

\* the input item at position i passed the date filter and is not returned
DroppedAt(i) ==
  /\ DateValidAt(i)
  /\ \A j \in 1..Len(dd.out.items) : ~IsInputAt(dd.out.items[j], i)

\* a returned item has the title key of the input item at position i
KeptHasTitleKeyOf(i) ==
  \E j \in 1..Len(dd.out.items) :
    TitleKey(dd.out.items[j].title) = TitleKey(dd.input[i].title)

\* a returned item has the registry identifier of the input item at position i
KeptHasRegistryIdOf(i) ==
  /\ IsRegistryId(dd.input[i].id)
  /\ \E j \in 1..Len(dd.out.items) :
       /\ IsRegistryId(dd.out.items[j].id)
       /\ NctIdOf(dd.out.items[j].id) = NctIdOf(dd.input[i].id)

\* an earlier date-valid input item has the registry identifier of the input
\* item at position i
EarlierHasRegistryIdOf(i) ==
  /\ IsRegistryId(dd.input[i].id)
  /\ \E h \in 1..(i - 1) :
       /\ DateValidAt(h)
       /\ IsRegistryId(dd.input[h].id)
       /\ NctIdOf(dd.input[h].id) = NctIdOf(dd.input[i].id)

\* C27 as stated: a date-valid item is dropped only when a kept item has its
\* title key or its registry identifier (inputs of at most 10 items, where
\* the top-10 cut removes nothing).
C27_Original ==
  (Returned /\ Len(dd.input) <= TopN) =>
    \A i \in 1..Len(dd.input) :
      DroppedAt(i) => KeptHasTitleKeyOf(i) \/ KeptHasRegistryIdOf(i)

\* C27 amended: a date-valid item is dropped only when a kept item has its
\* title key, or an earlier date-valid input item, kept or not, has its
\* registry identifier.
C27_DropReasons ==
  (Returned /\ Len(dd.input) <= TopN) =>
    \A i \in 1..Len(dd.input) :
      DroppedAt(i) => KeptHasTitleKeyOf(i) \/ EarlierHasRegistryIdOf(i)

\* a registry item was dropped although no kept item has its title key or
\* its identifier: the earlier item with its identifier was itself dropped,
\* for its title
C27_Witness ==
  /\ Returned
  /\ Len(dd.input) <= TopN
  /\ \E h, i \in 1..Len(dd.input) :
       /\ h < i
       /\ DroppedAt(h)
       /\ DroppedAt(i)
       /\ IsRegistryId(dd.input[h].id)
       /\ IsRegistryId(dd.input[i].id)
       /\ NctIdOf(dd.input[h].id) = NctIdOf(dd.input[i].id)
       /\ KeptHasTitleKeyOf(h)
       /\ ~KeptHasTitleKeyOf(i)
       /\ ~KeptHasRegistryIdOf(i)

\* ------------------------------------- claims on client errors

\* the answered request is one of the two client errors
ClientError ==
  \/ /\ handler.endpoint = "fetch-category"
     /\ handler.category \notin ValidCategories
  \/ /\ handler.endpoint = "fetch-personalized"
     /\ Falsy(handler.session_id)
     /\ ~(/\ Len(handler.authorization) >= 2
          /\ handler.authorization[1] = "Bearer"
          /\ VerifyToken(Tail(handler.authorization)).ok)

\* no sub-agent task was started
NoSubAgentStarted == agents = IdleAgents /\ pc = "idle" /\ finished = <<>>

\* C28 as stated: a fetch-category request with a category outside the four,
\* and a fetch-personalized request with neither a session id nor a valid
\* token, are answered with status 400, and no sub-agent is started.
C28_Original ==
  (handler.pc = "answered" /\ ClientError) =>
    /\ handler.status = 400
    /\ NoSubAgentStarted

\* the half of C28 that holds: a client error starts no sub-agent
C28_NoAggregation ==
  (handler.pc = "answered" /\ ClientError) => NoSubAgentStarted

\* ------------------------------------- claims on the temporary assistant

\* C29 as stated: when validate_heor_expertise has returned, every temporary
\* assistant it created has been deleted.
C29_Original == validation.pc = "returned" => validation.live = 0

\* the paths of C29 that hold: a first call in which no awaited API call
\* raised has deleted its assistant, whether the run completed or not and
\* whether the response was JSON or not
C29_DeletedUnlessRaised ==
  (validation.pc = "returned" /\ validation.calls = 1 /\ validation.raised = "") =>
    validation.live = 0

\* ------------------------------------- claims on the chat history

\* no call of process_chat_message is in progress
NoChatCallInProgress ==
  \A c \in DOMAIN chat_contexts.calls : chat_contexts.calls[c] \in {"returned", "raised"}

\* user and assistant messages alternate, starting with a user message, and
\* every user message is followed by the reply of its own call
StrictAlternation(history) ==
  /\ Len(history) % 2 = 0
  /\ \A k \in DOMAIN history :
       /\ k % 2 = 1 => history[k].role = "user"
       /\ k % 2 = 0 => /\ history[k].role = "assistant"
                       /\ history[k].call = history[k - 1].call

\* C30 as stated: once no call is in progress, the stored history is a strict
\* alternation of user and assistant messages starting with a user message,
\* every user message followed by its assistant reply.
C30_Original ==
  NoChatCallInProgress => StrictAlternation(chat_contexts.chat_history)

====
